---- MODULE Spec2Model ----
(***************************************************************************)
(* Model of the ARRMS <-> Onspring integration: the forward sync           *)
(* (Onspring record + attachments -> ARRMS questionnaire) in its webhook,  *)
(* batch and local-runner forms, the reverse sync (ARRMS statistics ->     *)
(* Onspring fields) and the status derivation.                             *)
(*                                                                         *)
(* One entry point runs per behaviour; `flow' says which one.  The ARRMS   *)
(* backend is the set `entities'; every remote call is one action whose    *)
(* outcome (success or a raised error) is chosen by the environment.       *)
(***************************************************************************)
EXTENDS Integers, Sequences, FiniteSets, TLC

\* ---------------------------------------------------------------- bounds
\* Largest number of supplementary (non-primary) files of a record.
MaxSupp == 3
\* Source record identifiers are 1..MaxRecordId.
MaxRecordId == 2
\* Largest number of invocations of the single-record webhook handler.
MaxSyncs == 2
\* Largest number of records (or external ids) of one batch.
MaxRecords == 2
\* Question counters of the statistics range over 0..MaxQ.
MaxQ == 2
\* Number of request threads the web runner has in flight.
MaxThreads == 2
\* Largest number of entries of a record's fieldData array.
MaxFields == 2
\* Largest number of entries of a response's external_references array.
MaxRefs == 2
\* Largest number of items of a field's list value.
MaxItems == 2

Threads == 1 .. MaxThreads

\* Record ids; a batch of MaxRecords distinct records needs that many.
RecordIds == 1 .. (IF MaxRecordId > MaxRecords THEN MaxRecordId ELSE MaxRecords)

\* How the primary file's fileName looks: usable, null, empty, or without
\* an extension (os.path.splitext gives an empty extension).
NameKinds == {"ok", "none", "empty", "noext"}

\* A source record as the sync sees it: its id, the number of file objects
\* get_record_files returns for it, and the primary file's name.
SourceRecords ==
    { r \in [id : RecordIds, nfiles : 0 .. (MaxSupp + 1), name : NameKinds] :
        r.nfiles = 0 => r.name = "ok" }

NoRecord == [id |-> 0, nfiles |-> 0, name |-> "ok"]

\* The i-th record of a page: get_records returns each record once, so the
\* records of one batch have distinct ids.
BatchRecords(i) == { r \in SourceRecords : r.id = i }

\* Outcome of one supplementary file: both calls succeed, download_file
\* raises, or upload_document raises.
Outcomes == {"ok", "download_fails", "upload_fails"}

NoResponse == [status |-> 0, kind |-> "none"]

VARIABLES
    flow,           \* which entry point this behaviour runs
    pc,             \* position of the running handler
    syncs,          \* invocations of the handler started so far
    response,       \* the handler's response
    tempFiles,      \* temporary files on disk
    entities,       \* ARRMS questionnaires: set of [id, ext]
    createOk,       \* per record id: create calls that succeeded
    updateOk,       \* per record id: update calls that succeeded
    rec,            \* the source record being synced
    inv,            \* remote calls issued for the current record
    existing,       \* target id the lookup reported (0: absent)
    arrms_id,       \* target id the current record resolved to (0: none)
    attempted,      \* supplementary files attempted for the record, in order
    outcomes,       \* the environment's outcome of each supplementary file
    files_synced,   \* supplementary uploads counted as succeeded
    files_failed,   \* supplementary uploads counted as failed
    envOk,          \* supplementary files whose two calls both succeeded
    envFail,        \* supplementary files whose download or upload raised
    idx,            \* batch: records taken from the list so far
    total_records,  \* batch: len(records)
    successful,     \* batch: records counted as synced
    failed,         \* batch: records counted as failed
    errors,         \* batch: the error list
    processed,      \* batch: outcome of each record taken, in order
    tpc,            \* send flow: position of each request thread
    trec,           \* send flow: record id each thread syncs
    texisting,      \* send flow: target id each thread's lookup reported
    overlapped,     \* send flow: a thread started while another was running
    stats,          \* reverse sync: the statistics ARRMS returned
    field_values,   \* reverse sync: the values derived for Onspring
    results,        \* reverse sync: one result per external id
    xform,          \* transform: the record given and the record returned
    source_writes,  \* fields written to the source record of the item in hand
    item,           \* the reverse-sync item in hand: its id, fetch and write-back calls
    request         \* the request the handler received, and whether its clients were built

\* The ARRMS backend and the calls that changed it.
backendVars == << entities, createOk, updateOk >>
\* What belongs to the record in hand.
recVars == << rec, inv, existing, arrms_id, attempted, outcomes >>
\* The attachment counters and the environment's own count.
fileVars == << files_synced, files_failed, envOk, envFail >>
\* The batch loop.
batchVars == << idx, total_records, successful, failed, errors, processed >>

\* The request threads of the web runner.
threadVars == << tpc, trec, texisting, overlapped >>

\* The reverse sync.
statVars == << stats, field_values, results >>

\* What the pure functions were applied to, and what they returned.
pureVars == << xform >>

\* What was written to the source system.
sourceVars == << source_writes, item, request >>

vars == << flow, pc, syncs, response, tempFiles, backendVars, recVars,
           fileVars, batchVars, threadVars, statVars, pureVars, sourceVars >>

\* metadata.source_document of a statistics response: missing or null, an
\* empty object, an object without a url, an object with a url.
DocKinds == {"absent", "empty", "no_url", "url"}

\* The part of a statistics response the derivation reads.
Statistics ==
    [total : 0 .. MaxQ, answered : 0 .. MaxQ, approved : 0 .. MaxQ,
     unanswered : 0 .. MaxQ, doc : DocKinds]

NoStats == [total |-> 0, answered |-> 0, approved |-> 0, unanswered |-> 0,
            doc |-> "none"]

NoFields == [Total |-> 0, Complete |-> 0, Open |-> 0, Status |-> "none"]

\* The shapes of an external id: "onspring-<n>", "<n>", and text that is
\* no number.
ExternalIdForms == {"prefixed", "plain", "text"}

\* extract_onspring_record_id: the prefix is removed and the rest goes
\* through int(); a ValueError becomes a ValidationError.
extract_onspring_record_id(form, n) ==
    LET record_id_str == IF form = "prefixed" THEN "plain" ELSE form
    IN IF record_id_str = "plain"
       THEN [raised |-> FALSE, record_id |-> n]
       ELSE [raised |-> TRUE, record_id |-> 0]

\* ONSPRING_FIELD_MAPPING: the field names that have a field id.
FieldMappings ==
    { {}, {"Total", "Status"}, {"Complete", "Open", "DueDate"},
      {"Total", "Complete", "Open", "Status"} }

\* The reverse-sync item before anything was done for it.
NoItem == [ext |-> "none", fetch |-> "none", mapping |-> {}, env |-> TRUE,
           calls |-> << >>, failed_call |-> 0]

\* The elements of a sequence.
Range(seq) == { seq[i] : i \in 1 .. Len(seq) }

\* The sequences over S of length at most n.
RECURSIVE SeqsUpTo(_, _)
SeqsUpTo(S, n) ==
    IF n = 0 THEN { << >> }
    ELSE SeqsUpTo(S, n - 1) \cup [1 .. n -> S]

\* ------------------------------------------------- external references
\* Systems an external reference can name.
Sources == {"onspring", "servicenow"}

\* parse_external_reference found no entry: None.
NoRef == [id |-> 0, external_source |-> "none"]

\* The external_references arrays a response can carry; an entry's id is
\* its position.
ReferenceLists ==
    { [i \in 1 .. Len(srcs) |-> [id |-> i, external_source |-> srcs[i]]] :
        srcs \in SeqsUpTo(Sources, MaxRefs) }

\* A parser that settles for the first entry, whatever its source.
parse_external_reference_FirstEntry(refs, external_source) == IF Len(refs) = 0 THEN NoRef ELSE refs[1]

\* parse_external_reference: the loop over the entries returns the first
\* whose external_source is the one asked for, None after the loop.
RECURSIVE parse_external_reference_from(_, _, _)
parse_external_reference_from(refs, i, external_source) ==
    IF i > Len(refs) THEN NoRef
    ELSE IF refs[i].external_source = external_source THEN refs[i]
    ELSE parse_external_reference_from(refs, i + 1, external_source)

parse_external_reference(refs, external_source) == parse_external_reference_from(refs, 1, external_source)

\* The HTTP reply of a lookup: its status and the ids in its body.
NoReply == [status |-> 0, results |-> << >>]

\* The calls a record's processing made, and what its lookup was answered.
NoCalls == [find |-> 0, create |-> 0, update |-> 0, doc |-> 0, download |-> 0,
            reply |-> NoReply, ref |-> NoRef, primary |-> 0, target |-> 0]

\* ------------------------------------------------------- ARRMS backend
\* Entities the backend holds for an external id.
EntitiesFor(ext) == { e \in entities : e.ext = ext }

\* POST .../questionnaires/upload: the backend stores a new questionnaire
\* under a fresh id; nothing in the call asks whether one exists.
NewId == Cardinality(entities) + 1

\* The upload as it would be against a target that keeps one questionnaire
\* per external id: a second upload for the id stores nothing new.
UploadedEntities_OnePerExternalId(ext) ==
    IF EntitiesFor(ext) = {} THEN entities \cup { [id |-> NewId, ext |-> ext] }
    ELSE entities

UploadedEntities(ext) == entities \cup { [id |-> NewId, ext |-> ext] }

\* GET .../questionnaires/find: the id of a questionnaire stored under the
\* external id, or 0 for the 404 the client turns into None.
FindResults(ext) ==
    IF EntitiesFor(ext) = {} THEN {0} ELSE { e.id : e \in EntitiesFor(ext) }

\* All orders in which the backend may list a set of ids.
RECURSIVE Orders(_)
Orders(S) ==
    IF S = {} THEN { << >> }
    ELSE UNION { { << x >> \o o : o \in Orders(S \ {x}) } : x \in S }

\* Statuses other than 404 for which raise_for_status raises.
ErrorStatuses == {403, 500}

\* GET /api/v1/questionnaires?external_id=...: a 200 with the list of the
\* matching questionnaires (possibly empty), a 404 when there is none, or
\* an error status.
ListReplies(ext) ==
    { [status |-> 200, results |-> o] : o \in Orders({ e.id : e \in EntitiesFor(ext) }) }
    \cup (IF EntitiesFor(ext) = {} THEN { [status |-> 404, results |-> << >>] } ELSE {})
    \cup { [status |-> st, results |-> << >>] : st \in ErrorStatuses }

\* GET .../questionnaires/find: a 200 with one questionnaire, a 404 when
\* there is none, or an error status.
FindReplies(ext) ==
    { [status |-> 200, results |-> << id >>] : id \in { e.id : e \in EntitiesFor(ext) } }
    \cup (IF EntitiesFor(ext) = {} THEN { [status |-> 404, results |-> << >>] } ELSE {})
    \cup { [status |-> st, results |-> << >>] : st \in ErrorStatuses }

\* A lookup that takes every failing status for absence.
get_questionnaire_by_external_id_ErrorsAreAbsence(reply) ==
    IF reply.status >= 400 \/ Len(reply.results) = 0
    THEN [raised |-> FALSE, existing |-> 0]
    ELSE [raised |-> FALSE, existing |-> reply.results[1]]

\* ARRMSClient.get_questionnaire_by_external_id: None on a 404, an
\* ARRMSAPIError on any other failing status, else results[0] or None for
\* an empty list.
get_questionnaire_by_external_id(reply) ==
    IF reply.status = 404 THEN [raised |-> FALSE, existing |-> 0]
    ELSE IF reply.status >= 400 THEN [raised |-> TRUE, existing |-> 0]
    ELSE IF Len(reply.results) = 0 THEN [raised |-> FALSE, existing |-> 0]
    ELSE [raised |-> FALSE, existing |-> reply.results[1]]

\* LocalARRMSClient.find_questionnaire_by_external_id: None on a 404, the
\* HTTPError re-raised on any other failing status, else the body.
find_questionnaire_by_external_id(reply) ==
    IF reply.status = 404 THEN [raised |-> FALSE, existing |-> 0]
    ELSE IF reply.status >= 400 THEN [raised |-> TRUE, existing |-> 0]
    ELSE [raised |-> FALSE, existing |-> reply.results[1]]

\* ----------------------------------------------------- attachment fan-out
\* The attachments of a record with n files, in the order the source
\* declares them; a file is named by its position.
Files(n) == [i \in 1 .. n |-> i]

\* questionnaire_file = files[0].
QuestionnaireFile(n) == Head(Files(n))

\* A split that takes all but the last file for the supplementary ones.
AdditionalFiles_AllButLast(n) == [i \in 1 .. (IF n > 1 THEN n - 1 ELSE 0) |-> i]

\* files[1:]: the supplementary files of a record with n files, by position.
AdditionalFiles(n) == [i \in 1 .. (IF n > 1 THEN n - 1 ELSE 0) |-> i + 1]

\* One iteration of the loop body: download_file, then upload_document,
\* inside the file's own try/except.  acc carries the counters.
FanOutStep(acc, f, o) ==
    IF o = "ok"
    THEN [acc EXCEPT !.synced = @ + 1, !.attempted = Append(@, f),
                     !.download = @ + 1, !.doc = @ + 1]
    ELSE [acc EXCEPT !.failed = @ + 1, !.attempted = Append(@, f),
                     !.download = @ + 1,
                     !.doc = @ + (IF o = "upload_fails" THEN 1 ELSE 0)]

RECURSIVE FanOutFrom(_, _, _, _)
FanOutFrom(files, outs, i, acc) ==
    IF i > Len(files) THEN acc
    ELSE FanOutFrom(files, outs, i + 1, FanOutStep(acc, files[i], outs[i]))

\* The loop as it would be if a raised error left it: the files after the
\* first one that throws are never attempted.
FanOut_StopsAtFirstFailure(files, outs, synced0, failed0) ==
    LET thrown == { i \in DOMAIN outs : outs[i] # "ok" }
        k == IF thrown = {} THEN Len(files) + 1
             ELSE CHOOSE i \in thrown : \A j \in thrown : i <= j
        last == IF k > Len(files) THEN Len(files) ELSE k
    IN [synced |-> synced0 + (k - 1),
        failed |-> failed0 + (IF k > Len(files) THEN 0 ELSE 1),
        attempted |-> SubSeq(files, 1, last),
        download |-> last,
        doc |-> IF k > Len(files) THEN last
                ELSE (k - 1) + (IF outs[k] = "upload_fails" THEN 1 ELSE 0)]

\* for file_info in additional_files: ... ; the counters start from the
\* caller's values (0 per invocation, or the batch's running totals).
FanOut(files, outs, synced0, failed0) ==
    FanOutFrom(files, outs, 1,
               [synced |-> synced0, failed |-> failed0, attempted |-> << >>,
                download |-> 0, doc |-> 0])

OutcomeVectors(n) == [1 .. (IF n > 1 THEN n - 1 ELSE 0) -> Outcomes]

\* The environment's own tally of a vector of outcomes.
CountOk(outs) == Cardinality({ i \in DOMAIN outs : outs[i] = "ok" })
CountThrown(outs) == Cardinality({ i \in DOMAIN outs : outs[i] # "ok" })

\* A fresh record: nothing fetched, no call issued.
ResetRecord ==
    /\ rec' = NoRecord
    /\ inv' = NoCalls
    /\ existing' = 0
    /\ arrms_id' = 0
    /\ attempted' = << >>
    /\ outcomes' = << >>

\* ------------------------------------------------------------ responses
\* build_response(status_code, body); kind names the branch that built it.
Respond(status, kind) == [status |-> status, kind |-> kind]

\* ------------------------------------------------- record validation
\* The check as it would be if an empty file list were let through.
NoFiles_Never(r) == FALSE

\* `if not files:' after get_record_files.
NoFiles(r) == r.nfiles = 0

\* os.path.splitext(file_name)[1] of a name: "" when there is no extension.
file_ext(name) == IF name = "ok" THEN ".ext" ELSE ""

\* `if not file_name: raise ValidationError' followed by
\* `if not file_ext: raise ValidationError' in the two Lambda handlers.
PrimaryFileRejected(name) == name \in {"none", "empty"} \/ file_ext(name) = ""

\* ------------------------------------------------- request validation
\* A RecordId or AppId of a webhook entry: missing (or empty, or 0), an
\* integer or a string of digits, a string that is no number, a JSON number
\* with a fraction.
IdValues == {"absent", "int", "text", "float"}

\* int(value) of lambda_handler: a ValueError or TypeError for text, the
\* truncated number for a float.
IntAccepts(value) == value \in {"int", "float"}

\* The request before a handler received one; clients says whether
\* OnspringClient() and ARRMSClient() were called for it.
NoRequest == [kind |-> "none", record_id |-> "absent", app_id |-> "absent",
              default_app |-> "absent", n |-> 0, clients |-> FALSE]

\* The bodies of a webhook request: text that is no JSON, a JSON object, an
\* empty array, an array whose first entry is no object, an array whose
\* first entry is an object. ONSPRING_DEFAULT_APP_ID (default_app) is read
\* only when the entry has no AppId.
WebhookBodies ==
    { [NoRequest EXCEPT !.kind = k] :
        k \in {"not_json", "object", "empty_list", "scalar_entry"} }
    \cup { b \in [kind : {"record"}, record_id : IdValues, app_id : IdValues,
                  default_app : {"absent", "int"}, n : {0},
                  clients : {FALSE}] :
             b.app_id # "absent" => b.default_app = "absent" }

\* The checks of lambda_handler before the clients are built: "accepted",
\* "validation" (ValidationError, 400) or "malformed" (another exception,
\* 500).
validate_webhook(body) ==
    IF body.kind = "not_json" THEN "malformed"
    ELSE IF body.kind \in {"object", "empty_list"} THEN "validation"
    ELSE IF body.kind = "scalar_entry" THEN "malformed"
    ELSE IF body.record_id = "absent" THEN "validation"
    ELSE IF ~IntAccepts(body.record_id) THEN "validation"
    ELSE LET app_id == IF body.app_id = "absent" THEN body.default_app
                       ELSE body.app_id
         IN IF app_id = "absent" THEN "validation"
            ELSE IF ~IntAccepts(app_id) THEN "validation"
            ELSE "accepted"

\* The requests of the reverse sync: a body that is no JSON, a null body,
\* a body without external_id and external_ids, one with an empty
\* external_ids list, one with n external ids.
ReverseRequests ==
    { [NoRequest EXCEPT !.kind = k] :
        k \in {"not_json", "no_body", "no_ids", "empty_ids"} }
    \cup { [NoRequest EXCEPT !.kind = "ids", !.n = n] : n \in 1 .. MaxRecords }

\* parse_event and the external_ids check of the reverse handler.
validate_reverse(req) ==
    IF req.kind \in {"not_json", "no_body"} THEN "malformed"
    ELSE IF req.n = 0 THEN "validation"
    ELSE "accepted"

\* ------------------------------------------- webhook handler (one record)
\* lambda_handler of onspring_webhook.py: the request is accepted, fails a
\* check (ValidationError, 400), or its body is not JSON (json.loads raises,
\* 500).
WH_Receive ==
    /\ flow = "webhook"
    /\ pc \in {"idle", "responded"}
    /\ syncs < MaxSyncs
    /\ syncs' = syncs + 1
    /\ ResetRecord
    /\ files_synced' = 0 /\ files_failed' = 0 /\ envOk' = 0 /\ envFail' = 0
    /\ \E body \in WebhookBodies :
         /\ request' = body
         /\ CASE validate_webhook(body) = "accepted" ->
                   pc' = "init" /\ response' = NoResponse
              [] validate_webhook(body) = "validation" ->
                   pc' = "responded" /\ response' = Respond(400, "validation")
              [] validate_webhook(body) = "malformed" ->
                   pc' = "responded" /\ response' = Respond(500, "malformed")
    /\ UNCHANGED << flow, pureVars, source_writes, item, threadVars, statVars, tempFiles, backendVars, batchVars >>

\* OnspringClient() and ARRMSClient(): a missing setting or secret raises.
WH_InitClients ==
    /\ flow = "webhook"
    /\ pc = "init"
    /\ \E ok \in BOOLEAN :
         IF ok
         THEN pc' = "get_record" /\ UNCHANGED response
         ELSE pc' = "responded" /\ response' = Respond(500, "error")
    /\ request' = [request EXCEPT !.clients = TRUE]
    /\ UNCHANGED << flow, pureVars, source_writes, item, threadVars, statVars, syncs, tempFiles, backendVars, recVars,
                    fileVars, batchVars >>

\* get_record, transform_record, get_record_files and the no-files check.
WH_GetRecord ==
    /\ flow = "webhook"
    /\ pc = "get_record"
    /\ \/ /\ pc' = "responded"
          /\ response' = Respond(500, "error")
          /\ UNCHANGED rec
       \/ \E r \in SourceRecords :
            /\ rec' = r
            /\ IF NoFiles(r)
               THEN pc' = "responded" /\ response' = Respond(400, "validation")
               ELSE pc' = "download" /\ UNCHANGED response
    /\ UNCHANGED << flow, pureVars, sourceVars, threadVars, statVars, syncs, tempFiles, backendVars, inv, existing,
                    arrms_id, attempted, outcomes, fileVars, batchVars >>

\* download_file of files[0], the file-name checks, the temporary file.
WH_DownloadPrimary ==
    /\ flow = "webhook"
    /\ pc = "download"
    /\ inv' = [inv EXCEPT !.download = @ + 1, !.primary = QuestionnaireFile(rec.nfiles)]
    /\ \/ /\ pc' = "responded"
          /\ response' = Respond(500, "error")
          /\ UNCHANGED tempFiles
       \/ IF ~PrimaryFileRejected(rec.name)
          THEN /\ tempFiles' = tempFiles + 1
               /\ pc' = "upload"
               /\ UNCHANGED response
          ELSE /\ pc' = "responded"
               /\ response' = Respond(400, "validation")
               /\ UNCHANGED tempFiles
    /\ UNCHANGED << flow, pureVars, sourceVars, threadVars, statVars, syncs, backendVars, rec, existing, arrms_id,
                    attempted, outcomes, fileVars, batchVars >>

\* The upload as it would be if its error were swallowed: the handler goes
\* on to the attachments and to its success response.
WH_UploadQuestionnaire_SwallowsError ==
    /\ flow = "webhook"
    /\ pc = "upload"
    /\ inv' = [inv EXCEPT !.create = @ + 1]
    /\ tempFiles' = tempFiles - 1
    /\ \/ /\ entities' = UploadedEntities(rec.id)
          /\ createOk' = [createOk EXCEPT ![rec.id] = @ + 1]
          /\ arrms_id' = NewId
       \/ UNCHANGED << entities, createOk, arrms_id >>
    /\ pc' = "fanout"
    /\ UNCHANGED << flow, pureVars, sourceVars, threadVars, statVars, syncs, response, updateOk, rec, existing,
                    attempted, outcomes, fileVars, batchVars >>

\* An upload that takes a response without a matching external reference
\* for a failed create.
WH_UploadQuestionnaire_RequiresReference ==
    /\ flow = "webhook"
    /\ pc = "upload"
    /\ tempFiles' = tempFiles - 1
    /\ \/ /\ \E refs \in ReferenceLists :
               /\ inv' = [inv EXCEPT !.create = @ + 1,
                                     !.ref = parse_external_reference(refs, "onspring")]
               /\ IF parse_external_reference(refs, "onspring") = NoRef
                  THEN /\ pc' = "responded"
                       /\ response' = Respond(500, "error")
                  ELSE /\ pc' = "fanout"
                       /\ UNCHANGED response
          /\ entities' = UploadedEntities(rec.id)
          /\ createOk' = [createOk EXCEPT ![rec.id] = @ + 1]
          /\ arrms_id' = NewId
       \/ /\ inv' = [inv EXCEPT !.create = @ + 1]
          /\ pc' = "responded"
          /\ response' = Respond(500, "error")
          /\ UNCHANGED << entities, createOk, arrms_id >>
    /\ UNCHANGED << flow, pureVars, sourceVars, threadVars, statVars, syncs, updateOk, rec, existing, attempted, outcomes,
                    fileVars, batchVars >>

\* upload_questionnaire inside try/finally os.unlink; no lookup precedes it.
WH_UploadQuestionnaire ==
    /\ flow = "webhook"
    /\ pc = "upload"
    /\ tempFiles' = tempFiles - 1
    /\ \/ /\ \E refs \in ReferenceLists :
               inv' = [inv EXCEPT !.create = @ + 1,
                                  !.ref = parse_external_reference(refs, "onspring")]
          /\ entities' = UploadedEntities(rec.id)
          /\ createOk' = [createOk EXCEPT ![rec.id] = @ + 1]
          /\ arrms_id' = NewId
          /\ pc' = "fanout"
          /\ UNCHANGED response
       \/ /\ inv' = [inv EXCEPT !.create = @ + 1]
          /\ pc' = "responded"
          /\ response' = Respond(500, "error")
          /\ UNCHANGED << entities, createOk, arrms_id >>
    /\ UNCHANGED << flow, pureVars, sourceVars, threadVars, statVars, syncs, updateOk, rec, existing, attempted, outcomes,
                    fileVars, batchVars >>

\* The fan-out as it would be if a file's error reached the handler's own
\* except clauses: one failed attachment turns the answer into a 500.
WH_FanOut_PropagatesFileError ==
    /\ flow = "webhook"
    /\ pc = "fanout"
    /\ \E outs \in OutcomeVectors(rec.nfiles) :
         LET r == FanOut(AdditionalFiles(rec.nfiles), outs, 0, 0)
         IN /\ outcomes' = outs
            /\ envOk' = CountOk(outs)
            /\ envFail' = CountThrown(outs)
            /\ files_synced' = r.synced
            /\ files_failed' = r.failed
            /\ attempted' = r.attempted
            /\ inv' = [inv EXCEPT !.download = @ + r.download, !.doc = @ + r.doc,
                               !.target = IF r.download > 0 THEN arrms_id ELSE @]
            /\ response' = IF r.failed > 0 THEN Respond(500, "error")
                           ELSE Respond(200, "processed")
    /\ pc' = "responded"
    /\ UNCHANGED << flow, pureVars, sourceVars, threadVars, statVars, syncs, tempFiles, backendVars, rec, existing,
                    arrms_id, batchVars >>

\* The loop over additional_files and the 200 response.
WH_FanOut ==
    /\ flow = "webhook"
    /\ pc = "fanout"
    /\ \E outs \in OutcomeVectors(rec.nfiles) :
         LET r == FanOut(AdditionalFiles(rec.nfiles), outs, 0, 0)
         IN /\ outcomes' = outs
            /\ envOk' = CountOk(outs)
            /\ envFail' = CountThrown(outs)
            /\ files_synced' = r.synced
            /\ files_failed' = r.failed
            /\ attempted' = r.attempted
            /\ inv' = [inv EXCEPT !.download = @ + r.download, !.doc = @ + r.doc,
                               !.target = IF r.download > 0 THEN arrms_id ELSE @]
    /\ response' = Respond(200, "processed")
    /\ pc' = "responded"
    /\ UNCHANGED << flow, pureVars, sourceVars, threadVars, statVars, syncs, tempFiles, backendVars, rec, existing,
                    arrms_id, batchVars >>

\* ------------------------------------------------ batch sync (forward)
\* A failure that is counted but leaves no entry in the error list.
RecordFailed_NoErrorEntry(id, kind) ==
    /\ failed' = failed + 1
    /\ processed' = Append(processed, "failed")
    /\ UNCHANGED << idx, total_records, successful, errors >>

\* except Exception as e: failed += 1; errors.append({record_id, error}).
\* The no-files branch does the same by hand before its `continue'.
RecordFailed(id, kind) ==
    /\ failed' = failed + 1
    /\ errors' = Append(errors, [record_id |-> id, error |-> kind])
    /\ processed' = Append(processed, "failed")
    /\ UNCHANGED << idx, total_records, successful >>

\* successful += 1 at the end of the loop body.
RecordSucceeded ==
    /\ successful' = successful + 1
    /\ processed' = Append(processed, "ok")
    /\ UNCHANGED << idx, total_records, failed, errors >>

\* lambda_handler of onspring_to_arrms.py: parse_event.
B_Receive ==
    /\ flow = "batch"
    /\ pc = "idle"
    /\ \E ok \in BOOLEAN :
         IF ok
         THEN pc' = "init" /\ UNCHANGED response
         ELSE pc' = "responded" /\ response' = Respond(500, "malformed")
    /\ UNCHANGED << flow, pureVars, sourceVars, threadVars, statVars, syncs, tempFiles, backendVars, recVars, fileVars,
                    batchVars >>

B_InitClients ==
    /\ flow = "batch"
    /\ pc = "init"
    /\ \E ok \in BOOLEAN :
         IF ok
         THEN pc' = "get_records" /\ UNCHANGED response
         ELSE pc' = "responded" /\ response' = Respond(500, "error")
    /\ UNCHANGED << flow, pureVars, sourceVars, threadVars, statVars, syncs, tempFiles, backendVars, recVars, fileVars,
                    batchVars >>

\* onspring_client.get_records: the list, or a raised OnspringAPIError.
B_GetRecords ==
    /\ flow = "batch"
    /\ pc = "get_records"
    /\ \/ /\ pc' = "responded"
          /\ response' = Respond(500, "error")
          /\ UNCHANGED total_records
       \/ /\ total_records' \in 0 .. MaxRecords
          /\ pc' = "loop"
          /\ UNCHANGED response
    /\ UNCHANGED << flow, pureVars, sourceVars, threadVars, statVars, syncs, tempFiles, backendVars, recVars, fileVars,
                    idx, successful, failed, errors, processed >>

\* for record in records: transform_record and get_record_files (either may
\* raise before the files are known), then the no-files check.
B_NextRecord ==
    /\ flow = "batch"
    /\ pc = "loop"
    /\ idx < total_records
    /\ idx' = idx + 1
    /\ \/ /\ rec' = NoRecord
          /\ pc' = "record_done"
          /\ failed' = failed + 1
          /\ errors' = Append(errors, [record_id |-> idx + 1, error |-> "exception"])
          /\ processed' = Append(processed, "failed")
       \/ \E r \in BatchRecords(idx + 1) :
            /\ rec' = r
            /\ IF NoFiles(r)
               THEN /\ pc' = "record_done"
                    /\ failed' = failed + 1
                    /\ errors' = Append(errors, [record_id |-> r.id, error |-> "no_files"])
                    /\ processed' = Append(processed, "failed")
               ELSE /\ pc' = "download"
                    /\ UNCHANGED << failed, errors, processed >>
    /\ UNCHANGED << flow, pureVars, sourceVars, threadVars, statVars, syncs, response, tempFiles, backendVars, inv,
                    existing, arrms_id, attempted, outcomes, fileVars,
                    total_records, successful >>

\* download_file of files[0], the file-name checks, the temporary file.
B_DownloadPrimary ==
    /\ flow = "batch"
    /\ pc = "download"
    /\ inv' = [inv EXCEPT !.download = @ + 1, !.primary = QuestionnaireFile(rec.nfiles)]
    /\ \/ /\ pc' = "record_done"
          /\ RecordFailed(rec.id, "download")
          /\ UNCHANGED tempFiles
       \/ IF ~PrimaryFileRejected(rec.name)
          THEN /\ tempFiles' = tempFiles + 1
               /\ pc' = "upload"
               /\ UNCHANGED batchVars
          ELSE /\ pc' = "record_done"
               /\ RecordFailed(rec.id, "validation")
               /\ UNCHANGED tempFiles
    /\ UNCHANGED << flow, pureVars, sourceVars, threadVars, statVars, syncs, response, backendVars, rec, existing,
                    arrms_id, attempted, outcomes, fileVars >>

\* The upload as it would be with one retry inside the loop body: a first
\* failure issues the call again instead of failing the record.
B_UploadQuestionnaire_RetriesOnce ==
    /\ flow = "batch"
    /\ pc = "upload"
    /\ inv' = [inv EXCEPT !.create = @ + 1]
    /\ \/ /\ entities' = UploadedEntities(rec.id)
          /\ createOk' = [createOk EXCEPT ![rec.id] = @ + 1]
          /\ arrms_id' = NewId
          /\ tempFiles' = tempFiles - 1
          /\ pc' = "fanout"
          /\ UNCHANGED batchVars
       \/ /\ IF inv.create = 0
             THEN pc' = "upload" /\ UNCHANGED batchVars
             ELSE pc' = "record_done" /\ RecordFailed(rec.id, "upload")
          /\ UNCHANGED << entities, createOk, arrms_id, tempFiles >>
    /\ UNCHANGED << flow, pureVars, sourceVars, threadVars, statVars, syncs, response, updateOk, rec, existing, attempted,
                    outcomes, fileVars >>

\* An upload whose failure is logged and the record carried on with.
B_UploadQuestionnaire_FanOutAnyway ==
    /\ flow = "batch"
    /\ pc = "upload"
    /\ \/ /\ \E refs \in ReferenceLists :
               inv' = [inv EXCEPT !.create = @ + 1,
                                  !.ref = parse_external_reference(refs, "onspring")]
          /\ entities' = UploadedEntities(rec.id)
          /\ createOk' = [createOk EXCEPT ![rec.id] = @ + 1]
          /\ arrms_id' = NewId
          /\ tempFiles' = tempFiles - 1
       \/ /\ inv' = [inv EXCEPT !.create = @ + 1]
          /\ UNCHANGED << entities, createOk, arrms_id, tempFiles >>
    /\ pc' = "fanout"
    /\ UNCHANGED << flow, pureVars, sourceVars, threadVars, statVars, syncs, response, updateOk, rec, existing, attempted,
                    outcomes, fileVars, batchVars >>

\* upload_questionnaire, then os.unlink; a raised error skips the unlink.
B_UploadQuestionnaire ==
    /\ flow = "batch"
    /\ pc = "upload"
    /\ \/ /\ \E refs \in ReferenceLists :
               inv' = [inv EXCEPT !.create = @ + 1,
                                  !.ref = parse_external_reference(refs, "onspring")]
          /\ entities' = UploadedEntities(rec.id)
          /\ createOk' = [createOk EXCEPT ![rec.id] = @ + 1]
          /\ arrms_id' = NewId
          /\ tempFiles' = tempFiles - 1
          /\ pc' = "fanout"
          /\ UNCHANGED batchVars
       \/ /\ inv' = [inv EXCEPT !.create = @ + 1]
          /\ pc' = "record_done"
          /\ RecordFailed(rec.id, "upload")
          /\ UNCHANGED << entities, createOk, arrms_id, tempFiles >>
    /\ UNCHANGED << flow, pureVars, sourceVars, threadVars, statVars, syncs, response, updateOk, rec, existing, attempted,
                    outcomes, fileVars >>

\* The loop over additional_files, on the batch's running counters.
B_FanOut ==
    /\ flow = "batch"
    /\ pc = "fanout"
    /\ \E outs \in OutcomeVectors(rec.nfiles) :
         LET r == FanOut(AdditionalFiles(rec.nfiles), outs, files_synced, files_failed)
         IN /\ envOk' = envOk + CountOk(outs)
            /\ envFail' = envFail + CountThrown(outs)
            /\ files_synced' = r.synced
            /\ files_failed' = r.failed
            /\ attempted' = r.attempted
            /\ inv' = [inv EXCEPT !.download = @ + r.download, !.doc = @ + r.doc,
                               !.target = IF r.download > 0 THEN arrms_id ELSE @]
    /\ RecordSucceeded
    /\ pc' = "record_done"
    /\ UNCHANGED << flow, pureVars, sourceVars, threadVars, statVars, syncs, response, tempFiles, backendVars, rec,
                    existing, arrms_id, outcomes >>

\* The loop as it would be if a failed record ended it: the summary is
\* returned at once and the records after it are never taken.
B_Continue_StopsAfterFailure ==
    /\ flow = "batch"
    /\ pc = "record_done"
    /\ ResetRecord
    /\ IF processed[Len(processed)] = "failed"
       THEN pc' = "responded" /\ response' = Respond(200, "summary")
       ELSE pc' = "loop" /\ UNCHANGED response
    /\ UNCHANGED << flow, pureVars, sourceVars, threadVars, statVars, syncs, tempFiles, backendVars, fileVars,
                    batchVars >>

\* The end of the loop body (or its `continue'): on to the next record.
B_Continue ==
    /\ flow = "batch"
    /\ pc = "record_done"
    /\ ResetRecord
    /\ pc' = "loop"
    /\ UNCHANGED << flow, pureVars, sourceVars, threadVars, statVars, syncs, response, tempFiles, backendVars, fileVars,
                    batchVars >>

\* The response as it would be if a batch without a single synced record
\* were reported as an error.
B_Respond_ErrorWhenNoneSynced ==
    /\ flow = "batch"
    /\ pc = "loop"
    /\ idx = total_records
    /\ response' = IF total_records > 0 /\ successful = 0
                   THEN Respond(500, "error")
                   ELSE Respond(200, "summary")
    /\ pc' = "responded"
    /\ UNCHANGED << flow, pureVars, sourceVars, threadVars, statVars, syncs, tempFiles, backendVars, recVars, fileVars,
                    batchVars >>

\* The summary response once the list is exhausted.
B_Respond ==
    /\ flow = "batch"
    /\ pc = "loop"
    /\ idx = total_records
    /\ response' = Respond(200, "summary")
    /\ pc' = "responded"
    /\ UNCHANGED << flow, pureVars, sourceVars, threadVars, statVars, syncs, tempFiles, backendVars, recVars, fileVars,
                    batchVars >>

\* --------------------------------------- local runner (lookup, then act)
\* run_batch_sync of local_runner.py: mock_client.get_records.
R_GetRecords ==
    /\ flow = "runner"
    /\ pc = "idle"
    /\ total_records' \in 0 .. MaxRecords
    /\ pc' = "loop"
    /\ UNCHANGED << flow, pureVars, sourceVars, threadVars, statVars, syncs, response, tempFiles, backendVars, recVars,
                    fileVars, idx, successful, failed, errors, processed >>

\* for record in records: run_webhook_flow up to its no-files return.
R_NextRecord ==
    /\ flow = "runner"
    /\ pc = "loop"
    /\ idx < total_records
    /\ idx' = idx + 1
    /\ \/ /\ rec' = NoRecord
          /\ pc' = "record_done"
          /\ failed' = failed + 1
          /\ errors' = Append(errors, [record_id |-> idx + 1, error |-> "exception"])
          /\ processed' = Append(processed, "failed")
       \/ \E r \in BatchRecords(idx + 1) :
            /\ rec' = r
            /\ IF NoFiles(r)
               THEN /\ pc' = "record_done"
                    /\ failed' = failed + 1
                    /\ errors' = Append(errors, [record_id |-> r.id, error |-> "no_files"])
                    /\ processed' = Append(processed, "failed")
               ELSE /\ pc' = "download"
                    /\ UNCHANGED << failed, errors, processed >>
    /\ UNCHANGED << flow, pureVars, sourceVars, threadVars, statVars, syncs, response, tempFiles, backendVars, inv,
                    existing, arrms_id, attempted, outcomes, fileVars,
                    total_records, successful >>

\* download_file of files[0]; the name falls back to ".xlsx" when it has no
\* extension, and a null name makes os.path.splitext raise.
R_DownloadPrimary ==
    /\ flow = "runner"
    /\ pc = "download"
    /\ inv' = [inv EXCEPT !.download = @ + 1, !.primary = QuestionnaireFile(rec.nfiles)]
    /\ \/ /\ pc' = "record_done"
          /\ RecordFailed(rec.id, "download")
          /\ UNCHANGED tempFiles
       \/ IF rec.name = "none"
          THEN /\ pc' = "record_done"
               /\ RecordFailed(rec.id, "exception")
               /\ UNCHANGED tempFiles
          ELSE /\ tempFiles' = tempFiles + 1
               /\ pc' = "find"
               /\ UNCHANGED batchVars
    /\ UNCHANGED << flow, pureVars, sourceVars, threadVars, statVars, syncs, response, backendVars, rec, existing,
                    arrms_id, attempted, outcomes, fileVars >>

\* find_questionnaire_by_external_id: an entity, None on 404, or a raise.
R_Find ==
    /\ flow = "runner"
    /\ pc = "find"
    /\ \E reply \in FindReplies(rec.id) :
         LET found == find_questionnaire_by_external_id(reply) IN
         /\ inv' = [inv EXCEPT !.find = @ + 1, !.reply = reply]
         /\ IF found.raised
            THEN /\ pc' = "record_done"
                 /\ tempFiles' = tempFiles - 1
                 /\ RecordFailed(rec.id, "lookup")
                 /\ UNCHANGED existing
            ELSE /\ existing' = found.existing
                 /\ pc' = "act"
                 /\ UNCHANGED << tempFiles, batchVars >>
    /\ UNCHANGED << flow, pureVars, sourceVars, threadVars, statVars, syncs, response, backendVars, rec, arrms_id,
                    attempted, outcomes, fileVars >>

\* if existing_questionnaire: update_questionnaire_file(existing id)
\* else: upload_questionnaire.
R_Act ==
    /\ flow = "runner"
    /\ pc = "act"
    /\ IF existing # 0
       THEN /\ inv' = [inv EXCEPT !.update = @ + 1]
            /\ \/ /\ updateOk' = [updateOk EXCEPT ![rec.id] = @ + 1]
                  /\ arrms_id' = existing
                  /\ pc' = "fanout"
                  /\ UNCHANGED << tempFiles, batchVars >>
               \/ /\ pc' = "record_done"
                  /\ tempFiles' = tempFiles - 1
                  /\ RecordFailed(rec.id, "update")
                  /\ UNCHANGED << updateOk, arrms_id >>
            /\ UNCHANGED << entities, createOk >>
       ELSE /\ inv' = [inv EXCEPT !.create = @ + 1]
            /\ \/ /\ entities' = UploadedEntities(rec.id)
                  /\ createOk' = [createOk EXCEPT ![rec.id] = @ + 1]
                  /\ arrms_id' = NewId
                  /\ pc' = "fanout"
                  /\ UNCHANGED << tempFiles, batchVars >>
               \/ /\ pc' = "record_done"
                  /\ tempFiles' = tempFiles - 1
                  /\ RecordFailed(rec.id, "upload")
                  /\ UNCHANGED << entities, createOk, arrms_id >>
            /\ UNCHANGED updateOk
    /\ UNCHANGED << flow, pureVars, sourceVars, threadVars, statVars, syncs, response, rec, existing, attempted, outcomes,
                    fileVars >>

\* The loop over files[1:], the return, the finally: os.unlink.
R_FanOut ==
    /\ flow = "runner"
    /\ pc = "fanout"
    /\ \E outs \in OutcomeVectors(rec.nfiles) :
         LET r == FanOut(AdditionalFiles(rec.nfiles), outs, 0, 0)
         IN /\ envOk' = CountOk(outs)
            /\ envFail' = CountThrown(outs)
            /\ files_synced' = r.synced
            /\ files_failed' = r.failed
            /\ attempted' = r.attempted
            /\ inv' = [inv EXCEPT !.download = @ + r.download, !.doc = @ + r.doc,
                               !.target = IF r.download > 0 THEN arrms_id ELSE @]
    /\ tempFiles' = tempFiles - 1
    /\ RecordSucceeded
    /\ pc' = "record_done"
    /\ UNCHANGED << flow, pureVars, sourceVars, threadVars, statVars, syncs, response, backendVars, rec, existing,
                    arrms_id, outcomes >>

\* run_webhook_flow has returned or raised: on to the next record, whose
\* call starts with files_uploaded = files_failed = 0.
R_Continue ==
    /\ flow = "runner"
    /\ pc = "record_done"
    /\ ResetRecord
    /\ files_synced' = 0 /\ files_failed' = 0 /\ envOk' = 0 /\ envFail' = 0
    /\ pc' = "loop"
    /\ UNCHANGED << flow, pureVars, sourceVars, threadVars, statVars, syncs, response, tempFiles, backendVars, batchVars >>

\* return results
R_Finish ==
    /\ flow = "runner"
    /\ pc = "loop"
    /\ idx = total_records
    /\ response' = Respond(0, "results")
    /\ pc' = "responded"
    /\ UNCHANGED << flow, pureVars, sourceVars, threadVars, statVars, syncs, tempFiles, backendVars, recVars, fileVars,
                    batchVars >>

\* ------------------------------------------ ARRMSClient.upsert_questionnaire
\* A caller invokes upsert_questionnaire(external_id, data).
U_Call ==
    /\ flow = "upsert"
    /\ pc \in {"idle", "responded"}
    /\ syncs < MaxSyncs
    /\ syncs' = syncs + 1
    /\ \E ext \in RecordIds : rec' = [id |-> ext, nfiles |-> 0, name |-> "ok"]
    /\ inv' = NoCalls /\ existing' = 0 /\ arrms_id' = 0
    /\ response' = NoResponse
    /\ pc' = "lookup"
    /\ UNCHANGED << flow, pureVars, sourceVars, threadVars, statVars, tempFiles, backendVars,
                    attempted, outcomes, fileVars, batchVars >>

\* get_questionnaire_by_external_id: None on 404 or an empty list,
\* results[0] otherwise; any other HTTP error is raised as ARRMSAPIError.
U_Lookup ==
    /\ flow = "upsert"
    /\ pc = "lookup"
    /\ \E reply \in ListReplies(rec.id) :
         LET found == get_questionnaire_by_external_id(reply) IN
         /\ inv' = [inv EXCEPT !.find = @ + 1, !.reply = reply]
         /\ IF found.raised
            THEN /\ pc' = "responded"
                 /\ response' = Respond(0, "raised")
                 /\ UNCHANGED existing
            ELSE /\ existing' = found.existing
                 /\ pc' = "act"
                 /\ UNCHANGED response
    /\ UNCHANGED << flow, pureVars, sourceVars, threadVars, statVars, syncs, tempFiles, backendVars,
                    rec, arrms_id, attempted, outcomes, fileVars, batchVars >>

\* if existing: update_questionnaire(existing["id"], data)
\* else: create_questionnaire(data); an ARRMSAPIError is re-raised.
U_Act ==
    /\ flow = "upsert"
    /\ pc = "act"
    /\ pc' = "responded"
    /\ IF existing # 0
       THEN /\ inv' = [inv EXCEPT !.update = @ + 1]
            /\ \/ /\ updateOk' = [updateOk EXCEPT ![rec.id] = @ + 1]
                  /\ arrms_id' = existing
                  /\ response' = Respond(0, "returned")
               \/ /\ response' = Respond(0, "raised")
                  /\ UNCHANGED << updateOk, arrms_id >>
            /\ UNCHANGED << entities, createOk >>
       ELSE /\ inv' = [inv EXCEPT !.create = @ + 1]
            /\ \/ /\ entities' = UploadedEntities(rec.id)
                  /\ createOk' = [createOk EXCEPT ![rec.id] = @ + 1]
                  /\ arrms_id' = NewId
                  /\ response' = Respond(0, "returned")
               \/ /\ response' = Respond(0, "raised")
                  /\ UNCHANGED << entities, createOk, arrms_id >>
            /\ UNCHANGED updateOk
    /\ UNCHANGED << flow, pureVars, sourceVars, threadVars, statVars, syncs, tempFiles, rec,
                    existing, attempted, outcomes, fileVars, batchVars >>

\* ------------------------------- web runner: one thread per send request
\* A thread that is between its start and its return.
Running(t) == tpc[t] \in {"find", "act"}

\* handle_send starts a thread on _run_send_flow: get_record,
\* transform_record, get_record_files, download_file of files[0], the
\* temporary file.  All of it is local to the thread and the mock source.
S_Start(t) ==
    /\ flow = "send"
    /\ tpc[t] = "idle"
    /\ overlapped' = (overlapped \/ \E u \in Threads \ {t} : Running(u))
    /\ \E r \in SourceRecords :
         /\ trec' = [trec EXCEPT ![t] = r.id]
         /\ \/ /\ tpc' = [tpc EXCEPT ![t] = "raised"]
               /\ UNCHANGED tempFiles
            \/ IF NoFiles(r)
               THEN /\ tpc' = [tpc EXCEPT ![t] = "no_files"]
                    /\ UNCHANGED tempFiles
               ELSE IF r.name = "none"
               THEN /\ tpc' = [tpc EXCEPT ![t] = "raised"]
                    /\ UNCHANGED tempFiles
               ELSE /\ tpc' = [tpc EXCEPT ![t] = "find"]
                    /\ tempFiles' = tempFiles + 1
    /\ UNCHANGED << flow, pureVars, sourceVars, statVars, pc, syncs, response, backendVars, recVars, fileVars,
                    batchVars, texisting >>

\* find_questionnaire_by_external_id.
S_Find(t) ==
    /\ flow = "send"
    /\ tpc[t] = "find"
    /\ \/ /\ tpc' = [tpc EXCEPT ![t] = "raised"]
          /\ tempFiles' = tempFiles - 1
          /\ UNCHANGED texisting
       \/ /\ \E e \in FindResults(trec[t]) :
               texisting' = [texisting EXCEPT ![t] = e]
          /\ tpc' = [tpc EXCEPT ![t] = "act"]
          /\ UNCHANGED tempFiles
    /\ UNCHANGED << flow, pureVars, sourceVars, statVars, pc, syncs, response, backendVars, recVars, fileVars,
                    batchVars, trec, overlapped >>

\* if existing: update_questionnaire_file else: upload_questionnaire;
\* finally: os.unlink.
S_Act(t) ==
    /\ flow = "send"
    /\ tpc[t] = "act"
    /\ tempFiles' = tempFiles - 1
    /\ \/ /\ tpc' = [tpc EXCEPT ![t] = "raised"]
          /\ UNCHANGED backendVars
       \/ /\ tpc' = [tpc EXCEPT ![t] = "done"]
          /\ IF texisting[t] # 0
             THEN /\ updateOk' = [updateOk EXCEPT ![trec[t]] = @ + 1]
                  /\ UNCHANGED << entities, createOk >>
             ELSE /\ entities' = UploadedEntities(trec[t])
                  /\ createOk' = [createOk EXCEPT ![trec[t]] = @ + 1]
                  /\ UNCHANGED updateOk
    /\ UNCHANGED << flow, pureVars, sourceVars, statVars, pc, syncs, response, recVars, fileVars, batchVars,
                    trec, texisting, overlapped >>

\* ------------------------------------------------------ status derivation
\* get_document_url(metadata): the url of a truthy source_document, or None.
get_document_url(doc) == IF doc = "url" THEN "url" ELSE "None"

\* The derivation with its first two rules swapped: approval and document
\* are looked at before the responses.
calculate_onspring_status_ApprovedFirst(total_questions, answered_questions, approved_questions, document_url) ==
    IF approved_questions = total_questions /\ document_url # "None"
    THEN "Ready for Validation"
    ELSE IF ~(answered_questions > 0) THEN "Not Started"
    ELSE "Request in Process"

\* calculate_onspring_status of arrms_to_onspring.py.
calculate_onspring_status(total_questions, answered_questions, approved_questions, document_url) ==
    LET has_responses == answered_questions > 0
        all_approved == approved_questions = total_questions
        has_document == document_url # "None"
    IN IF ~has_responses THEN "Not Started"
       ELSE IF all_approved /\ has_document THEN "Ready for Validation"
       ELSE "Request in Process"

\* calculate_onspring_fields of arrms_to_onspring.py (the question counts
\* and the status; the four confidence counts are copied as they are).
calculate_onspring_fields(st) ==
    [Total |-> st.total,
     Complete |-> st.approved,
     Open |-> st.unanswered,
     Status |-> calculate_onspring_status(st.total, st.answered, st.approved,
                                          get_document_url(st.doc))]

\* on_webhook of local_runner.py: the same derivation, written out again.
on_webhook_values(st) ==
    LET total == st.total
        complete == st.approved
        open_questions == total - complete
        answered == st.answered
        has_document == st.doc # "absent"
    IN [Total |-> total,
        Complete |-> complete,
        Open |-> open_questions,
        Status |-> IF answered = 0 THEN "Not Started"
                   ELSE IF complete = total /\ has_document
                        THEN "Ready for Validation"
                   ELSE "Request in Process"]

\* --------------------------------------------- reverse sync (ARRMS -> Onspring)
\* results.append(...) for one external id; processed keeps the outcome.
ItemResult(ok) ==
    /\ results' = Append(results, [external_id |-> idx, success |-> ok])
    /\ processed' = Append(processed, IF ok THEN "ok" ELSE "failed")

\* lambda_handler of arrms_to_onspring.py: parse_event and the check that
\* external ids were given.
V_Receive ==
    /\ flow = "reverse"
    /\ pc = "idle"
    /\ \E req \in ReverseRequests :
         /\ request' = req
         /\ CASE validate_reverse(req) = "malformed" ->
                   /\ pc' = "responded"
                   /\ response' = Respond(500, "malformed")
                   /\ UNCHANGED total_records
              [] validate_reverse(req) = "validation" ->
                   /\ total_records' = req.n
                   /\ pc' = "responded"
                   /\ response' = Respond(400, "validation")
              [] validate_reverse(req) = "accepted" ->
                   /\ total_records' = req.n
                   /\ pc' = "init"
                   /\ UNCHANGED response
    /\ UNCHANGED << flow, pureVars, source_writes, item, threadVars, syncs, tempFiles, backendVars, recVars,
                    fileVars, idx, successful, failed, errors, processed,
                    statVars >>

V_InitClients ==
    /\ flow = "reverse"
    /\ pc = "init"
    /\ \E ok \in BOOLEAN :
         IF ok
         THEN pc' = "loop" /\ UNCHANGED response
         ELSE pc' = "responded" /\ response' = Respond(500, "error")
    /\ request' = [request EXCEPT !.clients = TRUE]
    /\ UNCHANGED << flow, pureVars, source_writes, item, threadVars, statVars, syncs, tempFiles, backendVars,
                    recVars, fileVars, batchVars >>

\* A fetch that goes on with empty statistics when the call failed.
V_Fetch_GoesOnWithoutStatistics ==
    /\ flow = "reverse"
    /\ pc = "loop"
    /\ idx < total_records
    /\ idx' = idx + 1
    /\ \E form \in ExternalIdForms :
         \/ /\ item' = [NoItem EXCEPT !.ext = form, !.fetch = "failed"]
            /\ pc' = "calc"
            /\ UNCHANGED << stats, results, processed >>
         \/ /\ stats' \in Statistics
            /\ item' = [NoItem EXCEPT !.ext = form, !.fetch = "ok"]
            /\ pc' = "calc"
            /\ UNCHANGED << results, processed >>
    /\ UNCHANGED << flow, pureVars, source_writes, request, threadVars, syncs, response, tempFiles, backendVars,
                    recVars, fileVars, total_records, successful, failed,
                    errors, field_values >>

\* for external_id in external_ids: fetch_arrms_statistics; no statistics
\* raises IntegrationError, which the loop turns into a failed result.
V_Fetch ==
    /\ flow = "reverse"
    /\ pc = "loop"
    /\ idx < total_records
    /\ idx' = idx + 1
    /\ \E form \in ExternalIdForms :
         \/ /\ results' = Append(results, [external_id |-> idx + 1, success |-> FALSE])
            /\ processed' = Append(processed, "failed")
            /\ item' = [NoItem EXCEPT !.ext = form, !.fetch = "failed"]
            /\ pc' = "item_done"
            /\ UNCHANGED stats
         \/ /\ stats' \in Statistics
            /\ item' = [NoItem EXCEPT !.ext = form, !.fetch = "ok"]
            /\ pc' = "calc"
            /\ UNCHANGED << results, processed >>
    /\ UNCHANGED << flow, pureVars, source_writes, request, threadVars, syncs, response, tempFiles, backendVars,
                    recVars, fileVars, total_records, successful, failed,
                    errors, field_values >>

V_Calculate ==
    /\ flow = "reverse"
    /\ pc = "calc"
    /\ field_values' = calculate_onspring_fields(stats)
    /\ pc' = "update"
    /\ UNCHANGED << flow, pureVars, sourceVars, threadVars, syncs, response, tempFiles, backendVars,
                    recVars, fileVars, batchVars, stats, results >>

\* A write-back that also stamps the due date it read.
WrittenFields_IncludesDueDate(fv) == DOMAIN fv \cup {"DueDate"}

\* The names update_onspring_record passes to update_field_value: those of
\* field_values.
WrittenFields(fv) == DOMAIN fv

\* for field_name, value in field_values.items(): the names in the order
\* calculate_onspring_fields inserted them, any other name after them.
FieldOrder == << "Total", "Complete", "Open", "Status" >>

Rank(name) ==
    IF \E i \in 1 .. Len(FieldOrder) : FieldOrder[i] = name
    THEN CHOOSE i \in 1 .. Len(FieldOrder) : FieldOrder[i] = name
    ELSE Len(FieldOrder) + 1

OrderedFields(fv) ==
    LET Present(name) == name \in WrittenFields(fv)
        others == WrittenFields(fv) \ Range(FieldOrder)
    IN SelectSeq(FieldOrder, Present) \o (CHOOSE o \in Orders(others) : TRUE)

\* The fields of the loop that pass "if not field_id: continue".
MappedFields(fv, mapping) ==
    LET Mapped(name) == name \in mapping
    IN SelectSeq(OrderedFields(fv), Mapped)

\* A write-back that logs the failing call and goes on with the next field.
update_onspring_record_KeepsGoing(fv, mapping, env_ok, fail_at) ==
    LET mapped == MappedFields(fv, mapping)
        fails == fail_at \in 1 .. Len(mapped)
    IN IF ~env_ok
       THEN [calls |-> << >>, written |-> << >>, raised |-> TRUE, failed_call |-> 0]
       ELSE [calls |-> mapped,
             written |-> IF fails
                         THEN SubSeq(mapped, 1, fail_at - 1) \o SubSeq(mapped, fail_at + 1, Len(mapped))
                         ELSE mapped,
             raised |-> fails,
             failed_call |-> IF fails THEN fail_at ELSE 0]

\* update_onspring_record: env_ok says ONSPRING_DEFAULT_APP_ID is set and
\* ONSPRING_FIELD_MAPPING is JSON; fail_at is the position of the
\* update_field_value call that raises (0: none does). calls are the fields
\* a call was issued for, written those whose call returned.
update_onspring_record(fv, mapping, env_ok, fail_at) ==
    LET mapped == MappedFields(fv, mapping)
        fails == fail_at \in 1 .. Len(mapped)
    IN IF ~env_ok
       THEN [calls |-> << >>, written |-> << >>, raised |-> TRUE, failed_call |-> 0]
       ELSE IF fails
       THEN [calls |-> SubSeq(mapped, 1, fail_at),
             written |-> SubSeq(mapped, 1, fail_at - 1),
             raised |-> TRUE, failed_call |-> fail_at]
       ELSE [calls |-> mapped, written |-> mapped, raised |-> FALSE,
             failed_call |-> 0]

\* extract_onspring_record_id, then update_onspring_record: an external id
\* that is no number raises before any field is written; the loop writes
\* the fields that have a mapping, one call each, until a call raises.
V_Update ==
    /\ flow = "reverse"
    /\ pc = "update"
    /\ IF extract_onspring_record_id(item.ext, idx).raised
       THEN /\ ItemResult(FALSE)
            /\ UNCHANGED << source_writes, item >>
       ELSE \E mapping \in FieldMappings, env_ok \in BOOLEAN :
            \E fail_at \in 0 .. Len(MappedFields(field_values, mapping)) :
              LET r == update_onspring_record(field_values, mapping, env_ok, fail_at)
              IN /\ ItemResult(~r.raised)
                 /\ source_writes' = Range(r.written)
                 /\ item' = [item EXCEPT !.mapping = mapping, !.env = env_ok,
                                         !.calls = r.calls,
                                         !.failed_call = r.failed_call]
    /\ pc' = "item_done"
    /\ UNCHANGED << flow, pureVars, request, threadVars, syncs, response, tempFiles, backendVars,
                    recVars, fileVars, idx, total_records, successful, failed,
                    errors, stats, field_values >>

V_Continue ==
    /\ flow = "reverse"
    /\ pc = "item_done"
    /\ stats' = NoStats
    /\ field_values' = NoFields
    /\ source_writes' = {}
    /\ item' = NoItem
    /\ pc' = "loop"
    /\ UNCHANGED << flow, pureVars, request, threadVars, syncs, response, tempFiles, backendVars,
                    recVars, fileVars, batchVars, results >>

\* successful = sum(1 for r in results if r.get("success")); the summary.
V_Respond ==
    /\ flow = "reverse"
    /\ pc = "loop"
    /\ idx = total_records
    /\ successful' = Cardinality({ i \in DOMAIN results : results[i].success })
    /\ failed' = Len(results) - Cardinality({ i \in DOMAIN results : results[i].success })
    /\ response' = Respond(200, "summary")
    /\ pc' = "responded"
    /\ UNCHANGED << flow, pureVars, sourceVars, threadVars, statVars, syncs, tempFiles, backendVars,
                    recVars, fileVars, idx, total_records, errors, processed >>

\* ------------------------------------------- local runner: webhook listener
\* on_webhook: find the onspring reference, fetch the statistics.
L_Webhook ==
    /\ flow = "listener"
    /\ pc = "idle"
    /\ \/ /\ pc' = "responded"
          /\ response' \in {Respond(0, "ignored"), Respond(0, "fetch_failed")}
          /\ UNCHANGED stats
       \/ /\ stats' \in Statistics
          /\ pc' = "calc"
          /\ UNCHANGED response
    /\ UNCHANGED << flow, pureVars, sourceVars, threadVars, syncs, tempFiles, backendVars, recVars,
                    fileVars, batchVars, field_values, results >>

L_Calculate ==
    /\ flow = "listener"
    /\ pc = "calc"
    /\ field_values' = on_webhook_values(stats)
    /\ response' = Respond(0, "logged")
    /\ pc' = "responded"
    /\ UNCHANGED << flow, pureVars, sourceVars, threadVars, syncs, tempFiles, backendVars, recVars,
                    fileVars, batchVars, stats, results >>

\* ------------------------------------------------------ record transform
\* Field ids the transform reads from fieldData.
DueDateFieldId == 14872
ScopeSummaryFieldId == 14888
CompanyReferenceFieldId == 14947
\* Some field the transform does not read.
OtherFieldId == 101

FieldIds == {DueDateFieldId, ScopeSummaryFieldId, CompanyReferenceFieldId, OtherFieldId}

\* The companion collection of the reference field, and the field of it
\* that holds the company name.
CompanyAppId == 249
CompanyNameFieldId == 14949

\* A field's value: JSON null, or something.
FieldValues == {"null", "val"}

\* The reference field's value: JSON null, or the id of a company record.
ReferenceValues == {"null", "5", "7"}

\* The values a fieldData entry of a field id can carry.
ValuesOf(field_id) == IF field_id = CompanyReferenceFieldId THEN ReferenceValues ELSE FieldValues

FieldEntries == UNION { { [fieldId |-> f, value |-> v] : v \in ValuesOf(f) } : f \in FieldIds }

\* int(value) of a record id as it stands in the reference field.
int(value) == CASE value = "5" -> 5 [] value = "7" -> 7

\* Names of the legacy `fields' mapping the transform reads.
LegacyNames == {"Title", "DueDate"}

\* An Onspring record as the transform reads it: recordId, the fieldData
\* array, and the names present in the legacy fields mapping.
TransformInputs ==
    [recordId : RecordIds \cup {12345},
     fieldData : SeqsUpTo(FieldEntries, MaxFields),
     fields : SUBSET LegacyNames]

\* str(n) of a natural number: its decimal digits.
RECURSIVE str(_)
str(n) == IF n < 10 THEN << n >> ELSE Append(str(n \div 10), n % 10)

\* A lookup that falls back to the first entry, whatever its id, instead of
\* the default.
get_field_value_by_id_FirstEntry(field_data, field_id, default) ==
    IF \E i \in DOMAIN field_data : field_data[i].fieldId = field_id
    THEN field_data[CHOOSE i \in DOMAIN field_data :
                       /\ field_data[i].fieldId = field_id
                       /\ \A j \in 1 .. (i - 1) : field_data[j].fieldId # field_id].value
    ELSE IF Len(field_data) > 0 THEN field_data[1].value ELSE default

\* get_field_value_by_id: the value of the first fieldData entry with the
\* id, the default when no entry has it.
RECURSIVE get_field_value_by_id_from(_, _, _, _)
get_field_value_by_id_from(field_data, i, field_id, default) ==
    IF i > Len(field_data) THEN default
    ELSE IF field_data[i].fieldId = field_id THEN field_data[i].value
    ELSE get_field_value_by_id_from(field_data, i + 1, field_id, default)

get_field_value_by_id(field_data, field_id, default) == get_field_value_by_id_from(field_data, 1, field_id, default)

\* get_field_value: fields.get(name, {}).get("value", default).
get_field_value(fields, field_name, default) == IF field_name \in fields THEN "val" ELSE default

\* What resolve_reference_field can do when it is called.
ResolverOutcomes == {"resolved", "not_found", "raises"}

\* The resolver is called when the reference field is truthy and a client
\* was given.
ResolverCalled(record, has_client) == get_field_value_by_id(record.fieldData, CompanyReferenceFieldId, "null") # "null" /\ has_client

\* A transform that asks the resolver for the record itself.
ResolverCalls_PassesOwnId(record, has_client) ==
    IF get_field_value_by_id(record.fieldData, CompanyReferenceFieldId, "null") # "null" /\ has_client
    THEN << [referenced_app_id |-> CompanyAppId,
             referenced_record_id |-> record.recordId,
             field_id |-> CompanyNameFieldId] >>
    ELSE << >>

\* The calls of resolve_reference_field one transform makes, with their
\* arguments.
ResolverCalls(record, has_client) ==
    IF ResolverCalled(record, has_client)
    THEN << [referenced_app_id |-> CompanyAppId,
             referenced_record_id |-> int(get_field_value_by_id(record.fieldData, CompanyReferenceFieldId, "null")),
             field_id |-> CompanyNameFieldId] >>
    ELSE << >>

\* A resolver whose exception is not caught cleanly: the name is left as an
\* error marker.
ResolvedName_LeaksError(record, has_client, outcome) ==
    IF get_field_value_by_id(record.fieldData, CompanyReferenceFieldId, "null") # "null" /\ has_client
    THEN (IF outcome = "resolved" THEN "Company"
          ELSE IF outcome = "raises" THEN "error" ELSE "null")
    ELSE "null"

\* requester_name after the try/except around resolve_reference_field.
ResolvedName(record, has_client, outcome) ==
    IF ResolverCalled(record, has_client) /\ outcome = "resolved"
    THEN "Company" ELSE "null"

\* A transform that loses the external id when the resolver raises.
local_transform_record_DropsIdOnError(record, has_client, outcome) ==
    [title |-> get_field_value(record.fields, "Title", "Untitled Questionnaire"),
     due_date |-> get_field_value_by_id(record.fieldData, DueDateFieldId, "null"),
     notes |-> get_field_value_by_id(record.fieldData, ScopeSummaryFieldId, "null"),
     requester_name |-> ResolvedName(record, has_client, outcome),
     external_id |-> IF ResolverCalled(record, has_client) /\ outcome = "raises"
                     THEN << >> ELSE str(record.recordId),
     external_source |-> "onspring"]

\* transform_record of scripts/local_runner.py.
local_transform_record(record, has_client, outcome) ==
    [title |-> get_field_value(record.fields, "Title", "Untitled Questionnaire"),
     due_date |-> get_field_value_by_id(record.fieldData, DueDateFieldId, "null"),
     notes |-> get_field_value_by_id(record.fieldData, ScopeSummaryFieldId, "null"),
     requester_name |-> ResolvedName(record, has_client, outcome),
     external_id |-> str(record.recordId),
     external_source |-> "onspring"]

\* transform_record of handlers/onspring_to_arrms.py: it reads the legacy
\* mapping only and has no notes or requester_name key; its callers read
\* both with .get, which gives null.
transform_record(record) ==
    [title |-> get_field_value(record.fields, "Title", "Untitled Questionnaire"),
     due_date |-> get_field_value(record.fields, "DueDate", "null"),
     notes |-> "null",
     requester_name |-> "null",
     external_id |-> str(record.recordId),
     external_source |-> "onspring"]

NoTransform == [impl |-> "none"]

\* One call of the handlers' transform_record.
T_TransformHandler ==
    /\ flow = "transform"
    /\ pc = "idle"
    /\ \E record \in TransformInputs :
         xform' = [impl |-> "handler", record |-> record, has_client |-> FALSE,
                   resolver |-> "skipped", calls |-> << >>,
                   result |-> transform_record(record)]
    /\ pc' = "responded"
    /\ UNCHANGED << flow, sourceVars, threadVars, statVars, syncs, response, tempFiles, backendVars,
                    recVars, fileVars, batchVars >>

\* One call of the local runner's transform_record; the environment decides
\* what the resolver does if it is called.
T_TransformLocal ==
    /\ flow = "transform"
    /\ pc = "idle"
    /\ \E record \in TransformInputs, has_client \in BOOLEAN, outcome \in ResolverOutcomes :
         xform' = [impl |-> "local", record |-> record, has_client |-> has_client,
                   resolver |-> IF ResolverCalled(record, has_client) THEN outcome ELSE "skipped",
                   calls |-> ResolverCalls(record, has_client),
                   result |-> local_transform_record(record, has_client, outcome)]
    /\ pc' = "responded"
    /\ UNCHANGED << flow, sourceVars, threadVars, statVars, syncs, response, tempFiles, backendVars,
                    recVars, fileVars, batchVars >>

\* One call of parse_external_reference(response_data, external_source).
P_ParseExternalReference ==
    /\ flow = "parse"
    /\ pc = "idle"
    /\ \E refs \in ReferenceLists, external_source \in Sources :
         xform' = [impl |-> "parse", refs |-> refs, source |-> external_source,
                   result |-> parse_external_reference(refs, external_source)]
    /\ pc' = "responded"
    /\ UNCHANGED << flow, sourceVars, threadVars, statVars, syncs, response, tempFiles, backendVars,
                    recVars, fileVars, batchVars >>

\* -------------------------------------------------- attachment enumeration
\* An item of a field's list value: an object with a fileId, an object
\* without one, or something that is not an object.
ItemKinds == {"file", "object", "scalar"}

\* A field's value as get_record_files sees it: not a list, or a list of
\* items.
ListValues == [list : BOOLEAN, items : SeqsUpTo(ItemKinds, MaxItems)]

FileFieldValues == { v \in ListValues : v.list \/ v.items = << >> }

\* file_item.get("fileId"): an item's file id is its position in the list,
\* None (0) for an object that has none.
FileIdOf(items, i) == IF items[i] = "file" THEN i ELSE 0

\* The loop over the items of one file field; file_item.get raises on an
\* item that is not an object.
RECURSIVE ItemRefs(_, _, _, _)
ItemRefs(f, items, i, acc) ==
    IF acc.raised \/ i > Len(items) THEN acc
    ELSE IF items[i] = "scalar" THEN [acc EXCEPT !.raised = TRUE]
    ELSE ItemRefs(f, items, i + 1,
                  [acc EXCEPT !.files = Append(@, [field_id |-> f, file_id |-> FileIdOf(items, i)])])

\* isinstance(value, list) and len(value) > 0, and the first item is an
\* object with a fileId.
IsFileField(value) == value.list /\ Len(value.items) > 0 /\ value.items[1] = "file"

\* The loop over fieldData; a field is named by its position.
RECURSIVE get_record_files_from(_, _, _)
get_record_files_from(field_data, f, acc) ==
    IF acc.raised \/ f > Len(field_data) THEN acc
    ELSE get_record_files_from(field_data, f + 1,
            IF IsFileField(field_data[f]) THEN ItemRefs(f, field_data[f].items, 1, acc) ELSE acc)

\* OnspringClient.get_record_files (MockOnspringClient's is the same loop).
get_record_files(field_data) == get_record_files_from(field_data, 1, [raised |-> FALSE, files |-> << >>])

\* One call of get_record_files(record_data).
E_GetRecordFiles ==
    /\ flow = "enumerate"
    /\ pc = "idle"
    /\ \E field_data \in SeqsUpTo(FileFieldValues, MaxFields) :
         xform' = [impl |-> "enumerate", field_data |-> field_data,
                   result |-> get_record_files(field_data)]
    /\ pc' = "responded"
    /\ UNCHANGED << flow, sourceVars, threadVars, statVars, syncs, response, tempFiles, backendVars,
                    recVars, fileVars, batchVars >>

\* ------------------------------------------------------------ the system
Flows == {"webhook", "batch", "runner", "send", "upsert", "reverse", "listener",
          "transform", "parse", "enumerate"}

\* What earlier runs may have left in ARRMS: at most one questionnaire per
\* record id, under ids 1, 2, ...
RECURSIVE Stored(_, _)
Stored(ids, n) ==
    IF ids = {} THEN {}
    ELSE LET r == CHOOSE x \in ids : \A y \in ids : x <= y
         IN {[id |-> n, ext |-> r]} \cup Stored(ids \ {r}, n + 1)

InitialBackends == { Stored(ids, 1) : ids \in SUBSET RecordIds }

Init ==
    /\ flow \in Flows
    /\ pc = "idle"
    /\ syncs = 0
    /\ response = NoResponse
    /\ tempFiles = 0
    /\ entities \in (IF flow = "runner" THEN InitialBackends ELSE {{}})
    /\ createOk = [r \in RecordIds |-> 0]
    /\ updateOk = [r \in RecordIds |-> 0]
    /\ rec = NoRecord
    /\ inv = NoCalls
    /\ existing = 0
    /\ arrms_id = 0
    /\ attempted = << >>
    /\ outcomes = << >>
    /\ files_synced = 0
    /\ files_failed = 0
    /\ envOk = 0
    /\ envFail = 0
    /\ idx = 0
    /\ total_records = 0
    /\ successful = 0
    /\ failed = 0
    /\ errors = << >>
    /\ processed = << >>
    /\ tpc = [t \in Threads |-> "idle"]
    /\ trec = [t \in Threads |-> 0]
    /\ texisting = [t \in Threads |-> 0]
    /\ overlapped = FALSE
    /\ stats = NoStats
    /\ field_values = NoFields
    /\ results = << >>
    /\ xform = NoTransform
    /\ source_writes = {}
    /\ item = NoItem
    /\ request = NoRequest

Next ==
    \/ WH_Receive
    \/ WH_InitClients
    \/ WH_GetRecord
    \/ WH_DownloadPrimary
    \/ WH_UploadQuestionnaire
    \/ WH_FanOut
    \/ B_Receive
    \/ B_InitClients
    \/ B_GetRecords
    \/ B_NextRecord
    \/ B_DownloadPrimary
    \/ B_UploadQuestionnaire
    \/ B_FanOut
    \/ B_Continue
    \/ B_Respond
    \/ R_GetRecords
    \/ R_NextRecord
    \/ R_DownloadPrimary
    \/ R_Find
    \/ R_Act
    \/ R_FanOut
    \/ R_Continue
    \/ R_Finish
    \/ \E t \in Threads : S_Start(t)
    \/ \E t \in Threads : S_Find(t)
    \/ \E t \in Threads : S_Act(t)
    \/ U_Call
    \/ U_Lookup
    \/ U_Act
    \/ V_Receive
    \/ V_InitClients
    \/ V_Fetch
    \/ V_Calculate
    \/ V_Update
    \/ V_Continue
    \/ V_Respond
    \/ L_Webhook
    \/ L_Calculate
    \/ T_TransformHandler
    \/ T_TransformLocal
    \/ P_ParseExternalReference
    \/ E_GetRecordFiles

Spec == Init /\ [][Next]_vars

\* ================================================================ claims
\* The forward-sync entry points that run the attachment fan-out.
FanOutFlows == {"webhook", "batch", "runner"}

\* C1: for non-overlapping forward syncs of the same source record, only the
\* first sync issues a create; later syncs update, so no record has had two
\* successful creates and the target holds at most one entity per record.
C1_OnlyFirstSyncCreates ==
    ~overlapped =>
        \A r \in RecordIds :
            /\ createOk[r] <= 1
            /\ Cardinality(EntitiesFor(r)) <= 1

\* Two webhook deliveries of one record, one after the other, have both
\* issued a create that succeeded: the target holds two entities for it.
C1_SecondDeliveryCreatesAgain ==
    /\ flow = "webhook"
    /\ syncs = 2
    /\ pc = "responded"
    /\ response = Respond(200, "processed")
    /\ createOk[rec.id] = 2
    /\ updateOk[rec.id] = 0
    /\ Cardinality(EntitiesFor(rec.id)) = 2

\* C2: once the fan-out of a record has run, every supplementary file was
\* attempted exactly once in list order, whatever threw; uploaded is the
\* number that succeeded, failed the number that threw, and (counters
\* starting at 0) uploaded + failed is the number of supplementary files.
C2_FanOutCountsEveryFile ==
    (flow \in FanOutFlows /\ pc \in {"responded", "record_done"} /\ arrms_id # 0) =>
        /\ attempted = AdditionalFiles(rec.nfiles)
        /\ files_synced = envOk
        /\ files_failed = envFail
        /\ flow = "webhook" =>
              /\ files_synced = CountOk(outcomes)
              /\ files_failed = CountThrown(outcomes)
        /\ (flow # "batch" \/ idx = 1) =>
              files_synced + files_failed = Len(AdditionalFiles(rec.nfiles))

\* Three supplementary files, the second one's upload throws: two uploaded,
\* one failed, and the third was still attempted.
C2_SecondOfThreeThrows ==
    /\ flow = "webhook"
    /\ pc = "responded"
    /\ rec.nfiles = 4
    /\ outcomes = << "ok", "upload_fails", "ok" >>
    /\ attempted = << 2, 3, 4 >>
    /\ files_synced = 2
    /\ files_failed = 1

\* The entry points that loop over a list of records or external ids.
BatchFlows == {"batch", "runner", "reverse"}

\* How many entries of a sequence of outcomes are the given one.
CountOf(seq, what) == Cardinality({ i \in DOMAIN seq : seq[i] = what })

\* C3: a batch takes its records one at a time in order; a record whose
\* processing fails is caught and recorded (an entry of the error list, or a
\* result with success = false), and the records after it are still
\* processed: when the batch returns, every record has been processed.
C3_FailedRecordDoesNotStopBatch ==
    flow \in BatchFlows =>
        /\ pc = "loop" => Len(processed) = idx
        /\ flow \in {"batch", "runner"} =>
              /\ failed = Len(errors)
              /\ failed = CountOf(processed, "failed")
              /\ successful = CountOf(processed, "ok")
              /\ \A i \in DOMAIN errors :
                    /\ processed[errors[i].record_id] = "failed"
                    /\ \A j \in DOMAIN errors :
                          i < j => errors[i].record_id < errors[j].record_id
        /\ flow = "reverse" =>
              /\ Len(results) = Len(processed)
              /\ \A i \in DOMAIN results :
                    /\ results[i].external_id = i
                    /\ results[i].success = (processed[i] = "ok")
        /\ (pc = "responded" /\ response.kind \in {"summary", "results"}) =>
              Len(processed) = total_records

\* A batch of two whose first record failed and whose second was synced.
C3_SecondRecordSyncedAfterFailure ==
    /\ flow = "batch"
    /\ pc = "responded"
    /\ total_records = 2
    /\ processed = << "failed", "ok" >>
    /\ Len(errors) = 1
    /\ errors[1].record_id = 1
    /\ successful = 1
    /\ failed = 1

\* hasDocument as each derivation reads it from the statistics: the handler
\* asks for the document's url, the listener for the document itself.
HasDocument ==
    IF flow = "reverse" THEN stats.doc = "url" ELSE stats.doc # "absent"

\* C4: the derived status is a function of the statistics alone, decided by
\* the first rule that matches: no answered question gives "Not Started"
\* whatever else holds; otherwise all questions approved and a document give
\* "Ready for Validation"; everything else gives "Request in Process".
C4_StatusByFirstMatchingRule ==
    field_values # NoFields =>
        /\ field_values.Status \in
              {"Not Started", "Ready for Validation", "Request in Process"}
        /\ stats.answered = 0 => field_values.Status = "Not Started"
        /\ (stats.answered # 0 /\ stats.approved = stats.total /\ HasDocument) =>
              field_values.Status = "Ready for Validation"
        /\ (stats.answered # 0 /\ ~(stats.approved = stats.total /\ HasDocument)) =>
              field_values.Status = "Request in Process"

\* Nothing answered although everything is approved and a document exists:
\* the first rule wins.
C4_NotStartedDespiteApproval ==
    /\ flow = "reverse"
    /\ pc = "update"
    /\ stats.answered = 0
    /\ stats.total > 0
    /\ stats.approved = stats.total
    /\ stats.doc = "url"
    /\ field_values.Status = "Not Started"

\* C5: the rollup written back is total = totalQuestions, complete =
\* approvedQuestions and open = total - complete, whatever
\* unansweredQuestions is.
C5_OpenIsTotalMinusComplete ==
    field_values # NoFields =>
        /\ field_values.Total = stats.total
        /\ field_values.Complete = stats.approved
        /\ field_values.Open = stats.total - stats.approved

\* The handler has derived open = unansweredQuestions = 0 from statistics
\* with two questions of which one is approved.
C5_OpenTakenFromUnanswered ==
    /\ flow = "reverse"
    /\ pc = "update"
    /\ stats.total = 2
    /\ stats.approved = 1
    /\ stats.unanswered = 0
    /\ field_values.Open = 0

\* The threads that saw no entity for record r and completed their create.
CreatorsOf(r) ==
    { t \in Threads : tpc[t] = "done" /\ trec[t] = r /\ texisting[t] = 0 }

\* C6: lookup and act are separate steps: every request whose lookup
\* reported absence and whose create succeeded has added an entity of its
\* own, whatever another request did in between; two entities for one
\* record arise, and only when requests overlapped.
C6_EachAbsentLookupCreates ==
    flow = "send" =>
        \A r \in RecordIds :
            /\ Cardinality(EntitiesFor(r)) = Cardinality(CreatorsOf(r))
            /\ createOk[r] = Cardinality(CreatorsOf(r))
            /\ Cardinality(EntitiesFor(r)) > 1 => overlapped

\* Two concurrent requests for one record, both lookups found nothing, both
\* created: the target holds two entities for the record.
C6_RaceCreatesTwoEntities ==
    /\ flow = "send"
    /\ overlapped
    /\ tpc[1] = "done" /\ tpc[2] = "done"
    /\ trec[1] = trec[2]
    /\ texisting[1] = 0 /\ texisting[2] = 0
    /\ Cardinality(EntitiesFor(trec[1])) = 2

\* The last entry of the batch error list.
LastError == errors[Len(errors)]

\* C7: a record whose attachment fields hold no file gets no create, update
\* or supplementary upload (nor any download), leaves the fan-out counts
\* where they were (0 and 0 on the single-record path), and is reported as a
\* validation failure: failed with a "no files" error entry in a batch, a
\* validation error response on the single-record path.
C7_NoFilesIsValidationFailure ==
    (flow \in FanOutFlows /\ rec.id # 0 /\ rec.nfiles = 0) =>
        /\ inv = NoCalls
        /\ attempted = << >>
        /\ arrms_id = 0
        /\ files_synced = envOk /\ files_failed = envFail
        /\ flow = "webhook" =>
              /\ files_synced = 0 /\ files_failed = 0
              /\ pc = "responded"
              /\ response = Respond(400, "validation")
        /\ flow \in {"batch", "runner"} =>
              /\ pc = "record_done"
              /\ processed[idx] = "failed"
              /\ LastError = [record_id |-> rec.id, error |-> "no_files"]
              /\ idx = 1 => (files_synced = 0 /\ files_failed = 0)
              /\ createOk[rec.id] = 0 /\ updateOk[rec.id] = 0

\* The second record of a batch has no files: it is counted as failed with
\* its error entry, after a first record that was synced.
C7_BatchRecordWithoutFiles ==
    /\ flow = "batch"
    /\ pc = "record_done"
    /\ idx = 2
    /\ rec.nfiles = 0
    /\ processed = << "ok", "failed" >>
    /\ LastError = [record_id |-> 2, error |-> "no_files"]
    /\ inv = NoCalls

\* C8: a primary file without a name, or with a name that has no extension,
\* fails the whole record with a validation error: no create, update or
\* supplementary upload is issued for it.
C8_UnusablePrimaryNameFailsRecord ==
    (flow \in FanOutFlows /\ rec.id # 0 /\ rec.nfiles > 0 /\ rec.name # "ok") =>
        /\ inv.find = 0 /\ inv.create = 0 /\ inv.update = 0 /\ inv.doc = 0
        /\ (flow = "webhook" /\ pc = "responded") =>
              response \in {Respond(400, "validation"), Respond(500, "error")}
        /\ (flow \in {"batch", "runner"} /\ pc = "record_done") =>
              processed[idx] = "failed"

\* The local runner has synced a record whose primary file name has no
\* extension: the questionnaire was created and the record counted as synced.
C8_RunnerUploadsNameWithoutExtension ==
    /\ flow = "runner"
    /\ pc = "record_done"
    /\ rec.name = "noext"
    /\ existing = 0
    /\ inv.create = 1
    /\ createOk[rec.id] = 1
    /\ processed[idx] = "ok"

\* The paths that issue the create-or-update call of a record.
ActFlows == {"webhook", "batch", "runner", "upsert"}

\* C9: at most one create-or-update call is issued per record per
\* invocation; when it fails the record fails with the error captured
\* (batch: failed, with an error entry; otherwise the error is raised or
\* returned), and supplementary uploads only ever follow a call that
\* succeeded.
C9_ActFailureIsFatalForRecord ==
    flow \in ActFlows =>
        /\ inv.create + inv.update <= 1
        /\ pc = "fanout" => arrms_id # 0
        /\ inv.doc > 0 => arrms_id # 0
        /\ (inv.create + inv.update = 1 /\ arrms_id = 0 /\ pc \in {"record_done", "responded"}) =>
              /\ inv.doc = 0
              /\ attempted = << >>
              /\ flow \in {"batch", "runner"} =>
                    /\ processed[idx] = "failed"
                    /\ LastError.record_id = rec.id
                    /\ LastError.error \in {"upload", "update"}
              /\ flow = "upsert" => response = Respond(0, "raised")
              /\ flow = "webhook" => response = Respond(500, "error")

\* A batch record with supplementary files whose create call failed: one
\* call, the error recorded, nothing uploaded after it.
C9_FailedCreateSkipsSupplementary ==
    /\ flow = "batch"
    /\ pc = "record_done"
    /\ rec.nfiles > 1
    /\ inv.create = 1
    /\ arrms_id = 0
    /\ LastError = [record_id |-> rec.id, error |-> "upload"]
    /\ inv.doc = 0
    /\ processed[idx] = "failed"

\* The two batch handlers.
BatchHandlers == {"batch", "reverse"}

\* C10: once a batch handler has parsed its request, built its clients and
\* has its list, it answers 200 with the summary whatever happened to the
\* records; an error response is given only before the first record is
\* taken.
C10_SummaryOnceRecordsAreTaken ==
    (flow \in BatchHandlers /\ pc = "responded") =>
        \/ /\ response = Respond(200, "summary")
           /\ Len(processed) = total_records
           /\ successful + failed = total_records
        \/ /\ response.status \in {400, 500}
           /\ idx = 0
           /\ processed = << >>

\* Every record of a batch of two failed, and the response is the 200
\* summary.
C10_AllRecordsFailedStill200 ==
    /\ flow = "batch"
    /\ pc = "responded"
    /\ total_records = 2
    /\ successful = 0
    /\ failed = 2
    /\ response = Respond(200, "summary")

\* C10 as stated: a batch call answers 200 with the summary unless the
\* request was malformed.
C10_OnlyMalformedRequestIsRefused ==
    (flow \in BatchHandlers /\ pc = "responded") =>
        \/ response = Respond(200, "summary")
        \/ response.kind \in {"malformed", "validation"}

\* C11: the single-record handler answers every error with a failure
\* response, 400 for a validation error and 500 for anything else, and
\* answers 200 "processed" only when the primary create succeeded.
C11_WebhookErrorsAreFailureResponses ==
    (flow = "webhook" /\ pc = "responded") =>
        /\ response.status \in {200, 400, 500}
        /\ response.status = 200 <=> arrms_id # 0
        /\ response.status = 200 <=> response.kind = "processed"
        /\ response.status = 400 <=> response.kind = "validation"
        /\ response.kind = "validation" =>
              (rec = NoRecord \/ rec.nfiles = 0 \/ rec.name # "ok")
        /\ arrms_id # 0 => createOk[rec.id] >= 1

\* The create call of a webhook delivery failed: the answer is a 500.
C11_FailedCreateAnswers500 ==
    /\ flow = "webhook"
    /\ pc = "responded"
    /\ inv.create = 1
    /\ arrms_id = 0
    /\ response = Respond(500, "error")

\* C12: an error of a supplementary upload stays inside the fan-out: a
\* record whose primary create or update succeeded is reported as synced
\* (200 on the single-record path, counted in successful and absent from the
\* error list in a batch) whatever its supplementary files did, and their
\* failures show only in the failed-files count.
C12_FileErrorsStayInFanOut ==
    (flow \in FanOutFlows /\ pc \in {"responded", "record_done"} /\ arrms_id # 0) =>
        /\ files_failed = envFail
        /\ createOk[rec.id] + updateOk[rec.id] >= 1
        /\ flow = "webhook" => response = Respond(200, "processed")
        /\ flow \in {"batch", "runner"} =>
              /\ processed[idx] = "ok"
              /\ successful = CountOf(processed, "ok")
              /\ \A i \in DOMAIN errors : errors[i].record_id # rec.id

\* All three supplementary files of a webhook delivery failed, and the
\* answer is still the 200.
C12_AllFilesFailedStill200 ==
    /\ flow = "webhook"
    /\ pc = "responded"
    /\ rec.nfiles = 4
    /\ \A i \in DOMAIN outcomes : outcomes[i] # "ok"
    /\ files_synced = 0
    /\ files_failed = 3
    /\ response = Respond(200, "processed")

\* The number a sequence of decimal digits denotes.
RECURSIVE DecimalValue(_)
DecimalValue(digits) ==
    IF Len(digits) = 0 THEN 0
    ELSE 10 * DecimalValue(SubSeq(digits, 1, Len(digits) - 1)) + digits[Len(digits)]

Transformed == flow = "transform" /\ pc = "responded"

HasField(record, field_id) == \E i \in DOMAIN record.fieldData : record.fieldData[i].fieldId = field_id

\* C13: whatever optional fields the record has and whether the resolver
\* succeeded, failed or was skipped, the transformed record's external_id is
\* the decimal text of the record id and its external_source is "onspring".
C13_ExternalIdentityIsRecordId ==
    Transformed =>
        /\ Len(xform.result.external_id) >= 1
        /\ \A i \in DOMAIN xform.result.external_id : xform.result.external_id[i] \in 0 .. 9
        /\ Len(xform.result.external_id) > 1 => xform.result.external_id[1] # 0
        /\ DecimalValue(xform.result.external_id) = xform.record.recordId
        /\ xform.result.external_source = "onspring"

\* The resolver raised while record 12345 was transformed, and the id is
\* still "12345".
C13_IdKeptWhenResolverRaises ==
    /\ Transformed
    /\ xform.impl = "local"
    /\ xform.resolver = "raises"
    /\ xform.record.recordId = 12345
    /\ xform.result.external_id = << 1, 2, 3, 4, 5 >>
    /\ xform.result.external_source = "onspring"

\* The record without its entries of one field id.
WithoutField(record, field_id) == [record EXCEPT !.fieldData = SelectSeq(record.fieldData, LAMBDA f : f.fieldId # field_id)]

LookupSaidAbsent == inv.find = 1 /\ (inv.reply.status = 404 \/ (inv.reply.status = 200 /\ inv.reply.results = << >>))

\* The lookup of the record in hand was answered with another failing status.
LookupFailed == inv.find = 1 /\ inv.reply.status >= 400 /\ inv.reply.status # 404

\* C16: a lookup answered with a 404 or an empty list finds nothing and the
\* upsert goes on to create, never to update; a lookup answered with any
\* other failing status is raised and neither create nor update is called.
C16_NotFoundIsAbsenceOtherErrorsRaise ==
    (flow \in {"upsert", "runner"}) =>
        /\ LookupSaidAbsent =>
              /\ existing = 0
              /\ inv.update = 0
              /\ pc # "find" /\ pc # "lookup"
              /\ pc # "act" => inv.create = 1
              /\ flow = "upsert" /\ pc = "responded" => response.kind \in {"returned", "raised"}
        /\ LookupFailed =>
              /\ inv.create = 0 /\ inv.update = 0
              /\ existing = 0 /\ arrms_id = 0
              /\ flow = "upsert" => pc = "responded" /\ response = Respond(0, "raised")
              /\ flow = "runner" =>
                    /\ pc = "record_done"
                    /\ processed[idx] = "failed"
                    /\ errors[Len(errors)] = [record_id |-> rec.id, error |-> "lookup"]

\* The list endpoint answered 200 with an empty list and the upsert created.
C16_EmptyListLeadsToCreate ==
    /\ flow = "upsert"
    /\ pc = "responded"
    /\ inv.reply = [status |-> 200, results |-> << >>]
    /\ inv.create = 1
    /\ inv.update = 0
    /\ response = Respond(0, "returned")

\* The create of the record in hand succeeded and its response carried no
\* external reference of the source system.
CreatedWithoutReference ==
    /\ flow \in {"webhook", "batch"}
    /\ inv.create = 1
    /\ arrms_id # 0
    /\ inv.ref = NoRef

\* C17: a create response without a matching external reference is no
\* failure: the create has counted, the supplementary uploads are all
\* attempted against the returned id, and the record is reported as synced.
C17_MissingReferenceIsOnlyAWarning ==
    CreatedWithoutReference =>
        /\ createOk[rec.id] >= 1
        /\ \E e \in entities : e.id = arrms_id /\ e.ext = rec.id
        /\ pc \in {"fanout", "responded", "record_done"}
        /\ pc # "fanout" =>
              /\ attempted = AdditionalFiles(rec.nfiles)
              /\ files_synced + files_failed >= rec.nfiles - 1
              /\ flow = "webhook" => response = Respond(200, "processed")
              /\ flow = "batch" => processed[idx] = "ok" /\ \A i \in DOMAIN errors : errors[i].record_id # rec.id

\* A webhook delivery whose create response named no reference synced its
\* two supplementary files and answered 200.
C17_NoReferenceFilesStillSynced ==
    /\ CreatedWithoutReference
    /\ flow = "webhook"
    /\ pc = "responded"
    /\ rec.nfiles = 3
    /\ files_synced = 2
    /\ response = Respond(200, "processed")

Parsed == flow = "parse" /\ pc = "responded"

\* Positions of the entries of the requested source.
Matching == { i \in DOMAIN xform.refs : xform.refs[i].external_source = xform.source }

\* C19: parse_external_reference returns the first entry whose source is
\* the requested one, wherever it stands in the array, and None when the
\* array is empty or has no such entry; it never returns an entry of
\* another source.
C19_FirstEntryOfRequestedSource ==
    Parsed =>
        /\ Matching = {} <=> xform.result = NoRef
        /\ Matching # {} =>
              /\ xform.result.external_source = xform.source
              /\ xform.result.id \in Matching
              /\ \A i \in Matching : xform.result.id <= i
              /\ xform.result = xform.refs[xform.result.id]

\* The requested source's entry stands second, behind one of another source.
C19_MatchBehindAnotherSource ==
    /\ Parsed
    /\ xform.source = "onspring"
    /\ Len(xform.refs) = 2
    /\ xform.refs[1].external_source = "servicenow"
    /\ xform.result = [id |-> 2, external_source |-> "onspring"]

\* The files handed to the supplementary call so far.
Supplementary == { attempted[i] : i \in DOMAIN attempted }

\* C18: the attachments are split by position alone: the first file is the
\* one given to the create or update call, which is made at most once per
\* record, and files 2..n, each once and in order and no other, go through
\* the supplementary call; the first file never does.
C18_PrimaryFirstRestSupplementary ==
    (flow \in FanOutFlows /\ rec # NoRecord /\ rec.nfiles >= 1) =>
        /\ inv.create + inv.update <= 1
        /\ inv.create + inv.update = 1 => inv.primary = 1
        /\ 1 \notin Supplementary
        /\ Supplementary \subseteq 2 .. rec.nfiles
        /\ (pc \in {"responded", "record_done"} /\ arrms_id # 0) =>
              /\ Len(attempted) = rec.nfiles - 1
              /\ \A i \in DOMAIN attempted : attempted[i] = i + 1

\* A record with four files: the first was created from, the other three
\* went through the supplementary call.
C18_FourFilesOnePrimaryThreeSupplementary ==
    /\ flow = "batch"
    /\ pc = "record_done"
    /\ rec.nfiles = 4
    /\ inv.create = 1
    /\ inv.primary = 1
    /\ attempted = << 2, 3, 4 >>
    /\ inv.download = 4

\* The flows that carry records from the source to the target.
ForwardFlows == {"webhook", "batch", "runner", "send", "upsert", "transform"}

\* The fields the reverse sync derives from the target's statistics.
RollupFields == {"Total", "Complete", "Open", "Status"}

\* C20: a forward sync writes nothing to the source: no field of a source
\* record is written in any forward flow, and the record in hand stays as it
\* was fetched until the sync lets go of it; the reverse sync writes rollup
\* and status fields only, none of which the transform reads.
C20_ForwardSyncOnlyReadsSource ==
    /\ [](flow \in ForwardFlows => source_writes = {})
    /\ [](source_writes \subseteq RollupFields /\ source_writes \cap LegacyNames = {})
    /\ [][(flow \in ForwardFlows /\ rec # NoRecord /\ rec' # NoRecord /\ pc # "responded" /\ pc # "record_done") => rec' = rec]_vars

\* A batch record went through transform, enumeration and all its uploads.
C20_BatchRecordSyncedSourceUntouched ==
    /\ flow = "batch"
    /\ pc = "record_done"
    /\ rec # NoRecord
    /\ rec.nfiles = 3
    /\ inv.create = 1
    /\ inv.download = 3
    /\ source_writes = {}

\* The flows that create or update a target entity for a source record.
PrimaryFlows == {"webhook", "batch", "runner", "upsert"}

\* C21: for each record the lookup is issued before any create or update,
\* and after a lookup that did not fail exactly one of create (nothing
\* found) and update (an entity found) is issued, never both.
C21_LookupBeforeCreateOrUpdate ==
    (flow \in PrimaryFlows) =>
        /\ inv.create + inv.update >= 1 =>
              /\ inv.find = 1
              /\ inv.reply.status \in {200, 404}
        /\ inv.create + inv.update <= 1
        /\ inv.create = 1 => existing = 0
        /\ inv.update = 1 => existing # 0
        /\ (inv.find = 1 /\ inv.reply.status \in {200, 404} /\ pc \in {"fanout", "responded", "record_done"}) =>
              inv.create + inv.update = 1

\* A webhook delivery has issued its create and no lookup came before it.
C21_WebhookCreatesWithoutLookup ==
    /\ flow = "webhook"
    /\ pc = "fanout"
    /\ inv.find = 0
    /\ inv.create = 1
    /\ arrms_id # 0

\* Positions of the fieldData entries of the reference field.
ReferenceEntries == { i \in DOMAIN xform.record.fieldData : xform.record.fieldData[i].fieldId = CompanyReferenceFieldId }

\* The value the record carries in the reference field: that of its first
\* entry, null without one.
ReferenceValue ==
    IF ReferenceEntries = {} THEN "null"
    ELSE xform.record.fieldData[CHOOSE i \in ReferenceEntries : \A j \in ReferenceEntries : i <= j].value

Enumerated == flow = "enumerate" /\ pc = "responded"

\* The refs of field f among the enumerated ones, in their order.
RefsOfField(f) == SelectSeq(xform.result.files, LAMBDA r : r.field_id = f)

\* C23: the enumeration returns one ref per file object of every field whose
\* value is a non-empty list of objects with a file identifier, by field
\* position and then by position in the list; a field whose value is no
\* list, an empty list or a list of items without a file identifier gives
\* nothing, and no ref lacks a file identifier.
C23_OneRefPerFileObjectInOrder ==
    Enumerated =>
        /\ ~xform.result.raised
        /\ \A k \in DOMAIN xform.result.files : xform.result.files[k].file_id # 0
        /\ \A f \in DOMAIN xform.field_data :
              LET v == xform.field_data[f] IN
              /\ (~v.list \/ v.items = << >> \/ \A i \in DOMAIN v.items : v.items[i] # "file") =>
                    RefsOfField(f) = << >>
              /\ (v.list /\ v.items # << >> /\ \A i \in DOMAIN v.items : v.items[i] = "file") =>
                    RefsOfField(f) = [i \in DOMAIN v.items |-> [field_id |-> f, file_id |-> i]]
        /\ \A j, k \in DOMAIN xform.result.files :
              j < k => xform.result.files[j].field_id <= xform.result.files[k].field_id

\* A list whose first item is a file object and whose second is an object
\* without a fileId gave two refs, the second without a file identifier.
C23_RefWithoutFileIdProduced ==
    /\ Enumerated
    /\ Len(xform.field_data) = 1
    /\ xform.field_data[1] = [list |-> TRUE, items |-> << "file", "object" >>]
    /\ xform.result.files = << [field_id |-> 1, file_id |-> 1], [field_id |-> 1, file_id |-> 0] >>

\* The value of the record's first fieldData entry with the id.
FirstValue(record, field_id) ==
    record.fieldData[CHOOSE i \in DOMAIN record.fieldData :
                        /\ record.fieldData[i].fieldId = field_id
                        /\ \A j \in 1 .. (i - 1) : record.fieldData[j].fieldId # field_id].value

\* C24: a mapped field is taken from the id-keyed field list when that has
\* an entry for it, and from the legacy name-keyed map when the list has
\* none but the map does: so for the due date (id 14872, legacy name
\* DueDate) and the title (legacy name Title).
C24_IdFirstThenLegacyName ==
    Transformed =>
        /\ HasField(xform.record, DueDateFieldId) =>
              xform.result.due_date = FirstValue(xform.record, DueDateFieldId)
        /\ (~HasField(xform.record, DueDateFieldId) /\ "DueDate" \in xform.record.fields) =>
              xform.result.due_date = "val"
        /\ "Title" \in xform.record.fields => xform.result.title = "val"

\* The record has its due date under the legacy name only, and the local
\* runner's transform returned no due date.
C24_LegacyDueDateIgnored ==
    /\ Transformed
    /\ xform.impl = "local"
    /\ xform.record.fieldData = << >>
    /\ xform.record.fields = {"DueDate"}
    /\ xform.result.due_date = "null"

\* A supplementary file of the record in hand has been downloaded or
\* uploaded.
SupplementaryStarted == inv.doc >= 1 \/ attempted # << >> \/ inv.target # 0

ErrorsOf(k) == { i \in DOMAIN errors : errors[i].record_id = k }

\* C26: every item of a batch is counted once: after k items successful +
\* failed = k, at the end the two add up to the number of input records, and
\* the error list has one entry for each failed record and none for a synced
\* one; in the reverse sync there is one result per external id and the two
\* counts are taken from the results.
C26_EachItemCountedOnce ==
    /\ flow \in {"batch", "runner"} =>
          /\ pc \in {"loop", "record_done"} => successful + failed = idx
          /\ pc \in {"download", "find", "act", "upload", "fanout"} => successful + failed = idx - 1
          /\ successful + failed = Len(processed)
          /\ \A k \in DOMAIN processed :
                Cardinality(ErrorsOf(k)) = (IF processed[k] = "failed" THEN 1 ELSE 0)
          /\ Len(errors) = failed
          /\ (pc = "responded" /\ response.kind = "summary") => successful + failed = total_records
    /\ flow = "reverse" =>
          /\ pc \in {"loop", "item_done"} => Len(results) = idx
          /\ pc \in {"calc", "update"} => Len(results) = idx - 1
          /\ \A i \in DOMAIN results : results[i].external_id = i
          /\ (pc = "responded" /\ response.kind = "summary") =>
                /\ Len(results) = total_records
                /\ successful + failed = total_records
                /\ successful = Cardinality({ i \in DOMAIN results : results[i].success })

\* The runner has taken two records: the first failed at its upload, the
\* second was synced.
C26_RunnerOneFailedOneSynced ==
    /\ flow = "runner"
    /\ pc = "record_done"
    /\ idx = 2
    /\ processed = << "failed", "ok" >>
    /\ successful = 1
    /\ failed = 1
    /\ Len(errors) = 1
    /\ errors[1].record_id = 1

\* C27: the temporary file that holds a record's primary payload is gone
\* when the processing of the record ends, whether the create or update
\* call returned or raised.
C27_TempFileGoneWhenRecordEnds ==
    (flow \in FanOutFlows /\ pc \in {"record_done", "loop", "responded"}) => tempFiles = 0

\* The batch handler's upload raised, the record is recorded as failed, and
\* its temporary file is still there.
C27_BatchLeavesTempFileAfterFailedUpload ==
    /\ flow = "batch"
    /\ pc = "record_done"
    /\ inv.create = 1
    /\ arrms_id = 0
    /\ processed[idx] = "failed"
    /\ tempFiles = 1

\* C28: in the reverse sync of one external id the steps run in the order
\* fetch statistics, derive the fields, write back. A field of the source
\* record is written, or a write-back call issued, only after the fetch for
\* that id succeeded and the fields were derived from its statistics; when
\* the fetch failed, or the external id is no record id, the item's result
\* has success = FALSE and no write-back call was made for it.
C28_FetchThenDeriveThenWriteBack ==
    flow = "reverse" =>
        /\ pc = "calc" =>
              item.fetch = "ok" /\ item.calls = << >> /\ source_writes = {}
        /\ pc = "update" =>
              /\ item.fetch = "ok"
              /\ field_values = calculate_onspring_fields(stats)
              /\ item.calls = << >> /\ source_writes = {}
        /\ (source_writes # {} \/ item.calls # << >>) =>
              /\ pc = "item_done"
              /\ item.fetch = "ok"
              /\ item.ext \in {"prefixed", "plain"}
              /\ field_values = calculate_onspring_fields(stats)
        /\ (pc = "item_done" /\ (item.fetch = "failed" \/ item.ext = "text")) =>
              /\ results[Len(results)] = [external_id |-> idx, success |-> FALSE]
              /\ item.calls = << >>
              /\ source_writes = {}

\* The statistics of the second id arrived, the id is no number: the item
\* failed with nothing written.
C28_InvalidIdFailsUnwritten ==
    /\ flow = "reverse"
    /\ pc = "item_done"
    /\ idx = 2
    /\ item.fetch = "ok"
    /\ item.ext = "text"
    /\ stats.total = 2
    /\ results[2] = [external_id |-> 2, success |-> FALSE]
    /\ item.calls = << >>
    /\ source_writes = {}

\* The item in hand reached the write-back: its statistics arrived and its
\* external id is a record id.
WroteBack ==
    /\ flow = "reverse"
    /\ pc = "item_done"
    /\ item.fetch = "ok"
    /\ item.ext \in {"prefixed", "plain"}

\* C29: the write-back issues a field update only for derived fields that
\* have a configured field id, at most once per field and in field order;
\* fields without a field id are skipped and do not fail the item. When a
\* field update fails it is the last one issued, the updates made before it
\* stay in the source record, and the item's result has success = FALSE.
C29_WriteBackMappedFieldsInOrderUntilFailure ==
    WroteBack =>
        LET calls == item.calls
            last == results[Len(results)]
            configured == item.mapping \cap DOMAIN field_values
        IN /\ \A i \in 1 .. Len(calls) : calls[i] \in configured
           /\ \A i, j \in 1 .. Len(calls) : i < j => Rank(calls[i]) < Rank(calls[j])
           /\ last.success = (item.env /\ item.failed_call = 0)
           /\ last.success =>
                 /\ Range(calls) = configured
                 /\ source_writes = configured
           /\ item.failed_call # 0 =>
                 /\ item.failed_call = Len(calls)
                 /\ \A name \in configured :
                       Rank(name) < Rank(calls[Len(calls)]) => name \in Range(calls)
                 /\ source_writes = Range(SubSeq(calls, 1, Len(calls) - 1))
                 /\ ~last.success
           /\ ~item.env => calls = << >> /\ source_writes = {}

\* Total and Status have a field id; the update of Total was made, that of
\* Status failed: Total stays written and the item failed.
C29_SecondUpdateFailsFirstStays ==
    /\ WroteBack
    /\ item.mapping = {"Total", "Status"}
    /\ item.calls = << "Total", "Status" >>
    /\ item.failed_call = 2
    /\ source_writes = {"Total"}
    /\ results[Len(results)].success = FALSE

\* The webhook bodies the validation is said to reject: no non-empty array,
\* a first entry without RecordId, or without AppId when no default is
\* configured, or with one of them not an integer.
RejectedWebhookBody(body) ==
    \/ body.kind \in {"not_json", "object", "empty_list"}
    \/ /\ body.kind = "record"
       /\ \/ body.record_id # "int"
          \/ body.app_id = "absent" /\ body.default_app = "absent"
          \/ body.app_id \notin {"absent", "int"}

\* The reverse-sync requests that carry no external ids.
NoExternalIds(req) == req.kind \in {"no_body", "no_ids", "empty_ids"}

\* C30: request validation precedes every remote call. When the webhook
\* body is not a non-empty array, or its first entry lacks a RecordId or an
\* AppId (with no default configured) or carries a non-integer one, and when
\* a reverse-sync request carries no external ids, the handler has answered
\* 400 with a validation response and has made no call to the source or the
\* target system, client initialisation included.
C30_ValidationPrecedesRemoteCalls ==
    (\/ flow = "webhook" /\ RejectedWebhookBody(request)
     \/ flow = "reverse" /\ NoExternalIds(request)) =>
        /\ pc = "responded"
        /\ response = Respond(400, "validation")
        /\ ~request.clients
        /\ inv = NoCalls
        /\ rec = NoRecord

\* A webhook entry whose RecordId is a number with a fraction went through
\* the checks: the clients are built and the record is about to be fetched.
C30_FractionalRecordIdAccepted ==
    /\ flow = "webhook"
    /\ request.kind = "record"
    /\ request.record_id = "float"
    /\ request.app_id = "int"
    /\ pc = "get_record"
    /\ request.clients

====
